---- MODULE Spec2Model ----
(***************************************************************************)
(* A model of judge-llm: the ClientManager fallback coordinator            *)
(* (src/src/services/client_manager.py), the provider clients it drives    *)
(* (src/src/services/openrouter.py, src/src/services/together_ai.py) and   *)
(* the JudgeService (src/src/services/judge.py).                           *)
(*                                                                         *)
(* Python values.  A Python str is a sequence of pieces: a text is the     *)
(* sequence of its characters (<<"A", "\n">>), a fixed message is one      *)
(* piece (<<"Rate limited">>), an f-string is the concatenation (\o) of    *)
(* its parts and "" is << >>.  None is the marker None below, which is no  *)
(* text.  A dict is a function from its keys; a key that is absent is not  *)
(* in DOMAIN.  HTTP statuses are written as strings ("429") so that they   *)
(* compare with the symbolic statuses ("timeout") of the same field.       *)
(***************************************************************************)
EXTENDS Integers, Sequences, FiniteSets, TLC

\* ------------------------------------------------------------------ bounds
MaxRepeats == 3
MaxChunks == 2
\* the largest retry budget a caller passes
MaxRetries == 3

\* ------------------------------------------------------------ Python values
None == <<"<None>">>
EmptyStr == << >>

\* d.get(k, default)
Get(d, k, default) == IF k \in DOMAIN d THEN d[k] ELSE default

\* d[k] = v
DictSet(d, k, v) == [x \in (DOMAIN d) \cup {k} |-> IF x = k THEN v ELSE d[x]]

\* bool(v) of a str or None
Truthy(v) == v # None /\ v # EmptyStr

\* the value of time.time() - start, whatever it is
Elapsed == <<"<elapsed>">>

\* ------------------------------------------------------------------- text
\* A text is a sequence of characters, each a one-character string.
Whitespace == {" ", "\n", "\t"}

Lower == <<"a", "b", "c", "d", "e", "f", "g", "h", "i", "j", "k", "l", "m",
           "n", "o", "p", "q", "r", "s", "t", "u", "v", "w", "x", "y", "z">>
Upper == <<"A", "B", "C", "D", "E", "F", "G", "H", "I", "J", "K", "L", "M",
           "N", "O", "P", "Q", "R", "S", "T", "U", "V", "W", "X", "Y", "Z">>

\* the characters \w matches
WordChars == {Lower[i] : i \in 1..Len(Lower)} \cup {Upper[i] : i \in 1..Len(Upper)}
             \cup {"_", "0", "1", "2", "3", "4", "5", "6", "7", "8", "9"}

\* c.upper()
UpperChar(c) ==
    IF \E i \in 1..Len(Lower) : Lower[i] = c
    THEN Upper[CHOOSE i \in 1..Len(Lower) : Lower[i] = c]
    ELSE c

\* s.upper()
UpperStr(s) == [i \in 1..Len(s) |-> UpperChar(s[i])]

\* s[i:j] of Python, 0-based and half-open, written with 1-based bounds: the
\* characters lo..hi
Slice(s, lo, hi) == IF lo > hi THEN << >> ELSE SubSeq(s, lo, hi)

IsBlank(s) == \A i \in 1..Len(s) : s[i] \in Whitespace

\* s.strip()
Strip(s) ==
    IF IsBlank(s) THEN << >>
    ELSE LET lo == CHOOSE i \in 1..Len(s) :
                       s[i] \notin Whitespace /\ \A j \in 1..(i - 1) : s[j] \in Whitespace
             hi == CHOOSE i \in 1..Len(s) :
                       s[i] \notin Whitespace
                       /\ \A j \in (i + 1)..Len(s) : s[j] \in Whitespace
         IN SubSeq(s, lo, hi)

\* s.split(sep) for a one-character sep: the pieces between the separators
RECURSIVE SplitOn(_, _)
SplitOn(s, sep) ==
    IF \A i \in 1..Len(s) : s[i] # sep THEN << s >>
    ELSE LET k == CHOOSE i \in 1..Len(s) :
                      s[i] = sep /\ \A j \in 1..(i - 1) : s[j] # sep
         IN << Slice(s, 1, k - 1) >> \o SplitOn(Slice(s, k + 1, Len(s)), sep)

\* s.split(): the maximal runs of non-whitespace characters
RECURSIVE SplitWords(_)
SplitWords(s) ==
    IF IsBlank(s) THEN << >>
    ELSE LET lo == CHOOSE i \in 1..Len(s) :
                       s[i] \notin Whitespace /\ \A j \in 1..(i - 1) : s[j] \in Whitespace
             hi == CHOOSE i \in lo..Len(s) :
                       /\ \A j \in lo..i : s[j] \notin Whitespace
                       /\ (i = Len(s) \/ s[i + 1] \in Whitespace)
         IN << SubSeq(s, lo, hi) >> \o SplitWords(Slice(s, hi + 1, Len(s)))

\* sub in s
Contains(s, sub) ==
    \E i \in 1..(Len(s) - Len(sub) + 1) : SubSeq(s, i, i + Len(sub) - 1) = sub

\* \b holds between the characters i-1 and i of s
WordBoundary(s, i) ==
    LET before == i > 1 /\ s[i - 1] \in WordChars
        after == i <= Len(s) /\ s[i] \in WordChars
    IN before # after

\* len(re.findall(r'\bc\b', s)) for a letter c
CountStandalone(s, c) ==
    Cardinality({ i \in 1..Len(s) :
                    s[i] = c /\ WordBoundary(s, i) /\ WordBoundary(s, i + 1) })

\* ------------------------------------------------------ decision extractor
A == <<"A">>
B == <<"B">>
TIE == <<"T", "I", "E">>
ERR == <<"E", "R", "R">>

\* judge.py:42: the number of trailing words the extractor looks at
WindowWords == 10

\* the first i >= k at which s has a non-whitespace character, or Len(s) + 1
SkipSpace(s, k) ==
    CHOOSE i \in k..(Len(s) + 1) :
        /\ \A j \in k..(i - 1) : s[j] \in Whitespace
        /\ (i = Len(s) + 1 \/ s[i] \notin Whitespace)

\* s has one of the literals at position k
LiteralAt(s, k, literals) ==
    \E l \in literals : k + Len(l) - 1 <= Len(s) /\ SubSeq(s, k, k + Len(l) - 1) = l

\* s[i] is a standalone A or B: \b([AB])\b
StandaloneAB(s, i) ==
    /\ i \in 1..Len(s)
    /\ s[i] \in {"A", "B"}
    /\ WordBoundary(s, i)
    /\ WordBoundary(s, i + 1)

\* judge.py:52: the positions of the matches of \b(TIE)\b
TieWordMatches(s) ==
    { i \in 1..(Len(s) - 2) :
        SubSeq(s, i, i + 2) = TIE /\ WordBoundary(s, i) /\ WordBoundary(s, i + 3) }

\* judge.py:53: the capture of the leftmost match of
\* (?:final|answer|decision|conclusion|choice).*?\b([AB])\b starting at or after
\* k: the first standalone A or B after the keyword, on the keyword's line
VerdictWords ==
    { <<"f", "i", "n", "a", "l">>, <<"a", "n", "s", "w", "e", "r">>,
      <<"d", "e", "c", "i", "s", "i", "o", "n">>,
      <<"c", "o", "n", "c", "l", "u", "s", "i", "o", "n">>,
      <<"c", "h", "o", "i", "c", "e">> }

VerdictCapture(s, i) ==
    LET l == CHOOSE w \in VerdictWords : LiteralAt(s, i, {w}) IN
    { j \in (i + Len(l))..Len(s) :
        /\ StandaloneAB(s, j)
        /\ \A m \in (i + Len(l))..(j - 1) : s[m] # "\n" /\ ~StandaloneAB(s, m) }

RECURSIVE VerdictMatches(_, _)
VerdictMatches(s, k) ==
    LET starts == { i \in k..Len(s) :
                      LiteralAt(s, i, VerdictWords) /\ VerdictCapture(s, i) # {} }
    IN IF starts = {} THEN {}
       ELSE LET i == CHOOSE x \in starts : \A y \in starts : x <= y
                j == CHOOSE x \in VerdictCapture(s, i) : TRUE
            IN {j} \cup VerdictMatches(s, j + 1)

\* judge.py:54: the positions captured by \b([AB])\s*(?:is|wins|better)
IsWinsBetter ==
    { <<"i", "s">>, <<"w", "i", "n", "s">>, <<"b", "e", "t", "t", "e", "r">> }

VerbMatches(s) ==
    { i \in 1..Len(s) :
        /\ s[i] \in {"A", "B"}
        /\ WordBoundary(s, i)
        /\ LiteralAt(s, SkipSpace(s, i + 1), IsWinsBetter) }

\* judge.py:55: the positions captured by (?:candidate\s+)?([AB])(?:\s+(?:is|wins))
CandidateMatches(s) ==
    { i \in 1..Len(s) :
        /\ s[i] \in {"A", "B"}
        /\ SkipSpace(s, i + 1) > i + 1
        /\ LiteralAt(s, SkipSpace(s, i + 1), { <<"i", "s">>, <<"w", "i", "n", "s">> }) }

\* judge.py:56: the positions captured by ([AB])(?:\s*$|\s*[.!])
EndMatches(s) ==
    { i \in 1..Len(s) :
        /\ s[i] \in {"A", "B"}
        /\ LET k == SkipSpace(s, i + 1) IN k = Len(s) + 1 \/ s[k] \in {".", "!"} }

\* judge.py:51-57: the matches of each pattern of decision_patterns, in order
PatternMatches(s) ==
    << TieWordMatches(s), VerdictMatches(s, 1), VerbMatches(s), CandidateMatches(s),
       EndMatches(s) >>

\* judge.py:59-62: the last match of the first pattern that matches, or None
LastOfFirstMatching(s, matches) ==
    LET matching == { p \in 1..Len(matches) : matches[p] # {} }
        first == CHOOSE p \in matching : \A q \in matching : p <= q
        last == CHOOSE x \in matches[first] : \A y \in matches[first] : y <= x
    IN IF matching = {} THEN None
       ELSE IF first = 1 THEN TIE
       ELSE << s[last] >>

\* judge.py:50-62
PatternDecision(s) == LastOfFirstMatching(s, PatternMatches(s))

\* judge.py:65
TieKeywords ==
    { <<"E", "Q", "U", "A", "L">>, <<"S", "A", "M", "E">>, <<"T", "I", "E", "D">>,
      <<"D", "R", "A", "W">>,
      <<"E", "Q", "U", "I", "V", "A", "L", "E", "N", "T">>,
      <<"B", "O", "T", "H", " ", "A", "R", "E">> }

\* [line.strip() for line in lines]
StripAll(lines) == [i \in 1..Len(lines) |-> Strip(lines[i])]

\* judge.py:33: the stripped non-blank lines of the cleaned text
NonBlankLines(cleaned) ==
    StripAll(SelectSeq(SplitOn(cleaned, "\n"), LAMBDA line : ~IsBlank(line)))

\* the first label of the window taken for the last
EndDecisionFirstHit(lines, words) ==
    LET lo == IF Len(words) > WindowWords THEN Len(words) - WindowWords + 1 ELSE 1
        hits == { i \in lo..Len(words) : words[i] \in {A, B, TIE} }
    IN IF lines = << >> THEN None
       ELSE IF lines[Len(lines)] \in {A, B, TIE} THEN lines[Len(lines)]
       ELSE IF hits = {} THEN None
       ELSE words[CHOOSE i \in hits : \A j \in hits : i <= j]

\* the first line taken for the last
EndDecisionFirstLine(lines, words) ==
    LET lo == IF Len(words) > WindowWords THEN Len(words) - WindowWords + 1 ELSE 1
        hits == { i \in lo..Len(words) : words[i] \in {A, B, TIE} }
    IN IF lines = << >> THEN None
       ELSE IF lines[1] \in {A, B, TIE} THEN lines[1]
       ELSE IF hits = {} THEN None
       ELSE words[CHOOSE i \in hits : \A j \in hits : j <= i]

\* judge.py:34-44: the last line if it is a label, else the last of the final
\* WindowWords words that is a label, or None
EndDecision(lines, words) ==
    LET lo == IF Len(words) > WindowWords THEN Len(words) - WindowWords + 1 ELSE 1
        hits == { i \in lo..Len(words) : words[i] \in {A, B, TIE} }
    IN IF lines = << >> THEN None
       ELSE IF lines[Len(lines)] \in {A, B, TIE} THEN lines[Len(lines)]
       ELSE IF hits = {} THEN None
       ELSE words[CHOOSE i \in hits : \A j \in hits : j <= i]

\* any lead counted as a decision
CountDecisionAnyLead(cleaned) ==
    LET a_count == CountStandalone(cleaned, "A")
        b_count == CountStandalone(cleaned, "B")
    IN IF a_count > b_count THEN A
       ELSE IF b_count > a_count THEN B
       ELSE None

\* judge.py:69-78
CountDecision(cleaned) ==
    LET a_count == CountStandalone(cleaned, "A")
        b_count == CountStandalone(cleaned, "B")
    IN IF a_count > b_count + 1 THEN A
       ELSE IF b_count > a_count + 1 THEN B
       ELSE None

\* the patterns tried before the substring TIE
LaterDecisionPatternFirst(cleaned, pattern) ==
    IF pattern # None THEN pattern
    ELSE IF Contains(cleaned, TIE) THEN TIE
    ELSE IF \E kw \in TieKeywords : Contains(cleaned, kw) THEN TIE
    ELSE CountDecision(cleaned)

\* judge.py:46-78, pattern being what the loop of lines 59-62 finds
LaterDecision(cleaned, pattern) ==
    IF Contains(cleaned, TIE) THEN TIE
    ELSE IF pattern # None THEN pattern
    ELSE IF \E kw \in TieKeywords : Contains(cleaned, kw) THEN TIE
    ELSE CountDecision(cleaned)

\* the strategies in order: the first that decides
FirstDecision(at_end, later) == IF at_end # None THEN at_end ELSE later

\* judge.py:32-78
CleanedDecision(cleaned) ==
    FirstDecision(EndDecision(NonBlankLines(cleaned), SplitWords(cleaned)),
                  LaterDecision(cleaned, PatternDecision(cleaned)))

\* JudgeService._extract_decision: judge.py:24-78
ExtractDecision(response_text) ==
    IF response_text = EmptyStr THEN None
    ELSE CleanedDecision(UpperStr(Strip(response_text)))

\* ------------------------------------------------------- model descriptors
PrimaryId == <<"openrouter/model">>
SecondaryId == <<"together/model">>

\* ModelCapability: id and together_fallback (Optional[str], default None)
ModelConfigs ==
    { [id |-> PrimaryId, together_fallback |-> f] : f \in {None, EmptyStr, SecondaryId} }

\* the arguments a caller passes on: prompt, max_tokens, temperature, top_p,
\* timeout, retries (temperature and top_p in hundredths)
RequestArgs ==
    { [prompt_text |-> <<"prompt-1">>, max_tokens |-> 256, temperature |-> 0,
       top_p |-> 100, timeout |-> 120, retries |-> 3],
      [prompt_text |-> <<"prompt-2">>, max_tokens |-> 100, temperature |-> 70,
       top_p |-> 90, timeout |-> 30, retries |-> 1] }

\* ------------------------------------------------------------ client calls
\* The outcome of a client method: a returned dict or a raised exception.
Return(d) == [kind |-> "return", value |-> d]
Raise(msg) == [kind |-> "raise", msg |-> msg]

\* response texts of a successful completion
ReplyTexts == { <<"o", "k">>, <<"A">>, EmptyStr }

\* the HTTP statuses that take the generic "!= 200" branch
OtherStatuses == {"400", "401", "404", "500"}

\* the parsed body kept as "raw" by a successful call
RawOf(text) == [choices |-> << [message |-> [content |-> text]] >>]

\* Every dict OpenRouterClient.call returns, one per return statement.
OpenRouterFailures ==
    { [ok |-> FALSE, status |-> "429",
       text |-> <<"Rate limited - please wait and retry">>, elapsed |-> Elapsed] }
    \cup { [ok |-> FALSE, status |-> s,
            text |-> <<"Server temporarily unavailable">>, elapsed |-> Elapsed]
           : s \in {"502", "503"} }
    \cup { [ok |-> FALSE, status |-> s,
            text |-> <<"API error: ", "<body ", s, ">">>, elapsed |-> Elapsed]
           : s \in OtherStatuses }
    \cup { [ok |-> FALSE, status |-> "json_error",
            text |-> <<"Invalid JSON response">>, elapsed |-> Elapsed],
           [ok |-> FALSE, status |-> "no_choices",
            text |-> <<"No response choices returned">>, elapsed |-> Elapsed,
            raw |-> [choices |-> << >>]],
           [ok |-> FALSE, status |-> "timeout",
            text |-> <<"Request timed out after ", "<timeout>", "s">>,
            elapsed |-> <<"<timeout>">>],
           [ok |-> FALSE, status |-> "request_exception",
            text |-> <<"Network error: ", "<exception>">>, elapsed |-> None],
           [ok |-> FALSE, status |-> "unknown",
            text |-> <<"Exceeded retries">>, elapsed |-> None] }

OpenRouterSuccesses ==
    { [ok |-> TRUE, text |-> t, usage |-> <<"<usage>">>, elapsed |-> Elapsed,
       raw |-> RawOf(t)] : t \in ReplyTexts }

\* call returns one of its dicts, or raises where the payload is not of the
\* shape lines 114-116 index into (choices[0] that is no dict)
OpenRouterCallOutcomes ==
    { Return(d) : d \in OpenRouterFailures \cup OpenRouterSuccesses }
    \cup { Raise(<<"'str' object has no attribute 'get'">>) }

\* Every dict TogetherAIClient.call returns; every exception is caught.
TogetherFailures ==
    { [ok |-> FALSE, status |-> "parse_error",
       text |-> <<"No choices in response">>, elapsed |-> Elapsed],
      [ok |-> FALSE, status |-> "404",
       text |-> <<"Model '">> \o SecondaryId
                \o <<"' not found. Please verify the model ID is correct.">>,
       elapsed |-> Elapsed],
      [ok |-> FALSE, status |-> "401",
       text |-> <<"Authentication failed - check your Together AI API key">>,
       elapsed |-> Elapsed],
      [ok |-> FALSE, status |-> "429", text |-> <<"Rate limited">>,
       elapsed |-> Elapsed],
      [ok |-> FALSE, status |-> "exception", text |-> <<"<exception text>">>,
       elapsed |-> Elapsed],
      [ok |-> FALSE, status |-> "unknown", text |-> <<"Exceeded retries">>,
       elapsed |-> None] }

TogetherSuccesses ==
    { [ok |-> TRUE, text |-> t, usage |-> <<"{}">>, elapsed |-> Elapsed,
       raw |-> <<"<response object>">>] : t \in ReplyTexts }

TogetherCallOutcomes ==
    { Return(d) : d \in TogetherFailures \cup TogetherSuccesses }

\* the record of one invocation of a client method
Invocation(client, method, model_id, args) ==
    [client |-> client, method |-> method, model_id |-> model_id, args |-> args]

\* the runs of judge_majority: the second is there to compare two runs
Runs == {1, 2}

VARIABLES
    cw_pc,           \* call_with_fallback: "idle", "primary", "secondary", "returned", "raised"
    cw_config,       \* its model_config
    cw_args,         \* its prompt and parameters
    result,          \* the primary's result (client_manager.py:25)
    together_result, \* the secondary's result (client_manager.py:40)
    cw_returned,     \* the dict call_with_fallback returned
    invocations,     \* the client methods invoked so far, in order
    sw_pc,           \* stream_with_fallback: "idle", "primary", "secondary", "done"
    sw_config,       \* its model_config
    sw_args,         \* its prompt and parameters
    or_gen,          \* the generator openrouter_client.stream(...)
    tg_gen,          \* the generator together_client.stream(...)
    needs_fallback,  \* client_manager.py:80
    original_error,  \* client_manager.py:81
    out,             \* the chunks stream_with_fallback has yielded, in order
    primary_yields,  \* the chunks the primary generator has yielded, in order
    secondary_yields, \* the chunks the secondary generator has yielded, in order
    jm,              \* judge_majority, one record per run: see JMIdle
    ps_pc,           \* a provider stream consumed to its end: "idle", "running",
                     \* "ended", "raised"
    ps_provider,     \* "openrouter", "together" or "huggingface"
    ps_gen,          \* the generator client.stream(...)
    ps_out,          \* the chunks it has yielded, in order
    pcall,           \* a call of one provider client: see PCIdle
    ed,              \* a call of _extract_decision: see EDIdle
    ui,              \* a run of run_comparison_safe: see UIIdle
    app              \* the construction of an AppConfig: see AppIdle

cw_vars == <<cw_pc, cw_config, cw_args, result, together_result, cw_returned>>

sw_vars == <<sw_pc, sw_config, sw_args, or_gen, tg_gen, needs_fallback,
             original_error, out, primary_yields, secondary_yields>>

ps_vars == <<ps_pc, ps_provider, ps_gen, ps_out>>

\* the variables of the operations on one provider client, used on its own
client_vars == <<ps_vars, pcall>>

\* no operation on a provider client alone, no extraction and no comparison is
\* under way
ClientsIdle ==
    ps_pc = "idle" /\ pcall.pc = "idle" /\ ed.pc = "idle" /\ ui.pc = "idle" /\ app.pc = "idle"

\* ------------------------------------------------------ call_with_fallback
NoDict == [none |-> TRUE]

CWInit ==
    /\ cw_pc = "idle"
    /\ cw_config = [id |-> PrimaryId, together_fallback |-> None]
    /\ cw_args = CHOOSE a \in RequestArgs : a.retries = 3
    /\ result = NoDict
    /\ together_result = NoDict
    /\ cw_returned = NoDict

\* line 36 without its test of the primary's result
NeedsSecondaryIgnoresOk(res, model_config) == Truthy(model_config.together_fallback)

\* the branch condition of client_manager.py:36
NeedsSecondary(res, model_config) ==
    ~res["ok"] /\ Truthy(model_config.together_fallback)

\* lines 54-57 reading the primary's message from its "error" key
MarkFallbackUsedWrongKey(tres, res, model_config) ==
    DictSet(DictSet(DictSet(tres, "fallback_used", TRUE),
                    "fallback_model", model_config.together_fallback),
            "original_error", Get(res, "error", <<"OpenRouter failed">>))

\* client_manager.py:54-57: the secondary's result, marked as a fallback response
MarkFallbackUsed(tres, res, model_config) ==
    DictSet(DictSet(DictSet(tres, "fallback_used", TRUE),
                    "fallback_model", model_config.together_fallback),
            "original_error", Get(res, "text", <<"OpenRouter failed">>))

\* lines 60-61 without the secondary's message
MarkFallbackFailedDropsError(res, tres) == DictSet(res, "fallback_attempted", TRUE)

\* client_manager.py:60-61: the primary's result, with the secondary's error
MarkFallbackFailed(res, tres) ==
    DictSet(DictSet(res, "fallback_attempted", TRUE),
            "fallback_error", Get(tres, "text", <<"Together AI also failed">>))

\* call_with_fallback is entered and calls the primary client
CWStart ==
    /\ cw_pc = "idle"
    /\ sw_pc = "idle"
    /\ \A r \in Runs : jm[r].pc = "idle"
    /\ ClientsIdle
    /\ \E mc \in ModelConfigs, a \in RequestArgs :
        /\ cw_config' = mc
        /\ cw_args' = a
        /\ invocations' = Append(invocations,
                                 Invocation("openrouter", "call", mc.id, a))
    /\ cw_pc' = "primary"
    /\ UNCHANGED <<result, together_result, cw_returned, sw_vars, jm, client_vars, ed, ui, app>>

\* the primary call ends; the secondary is called if line 36 says so
CWPrimaryEnds ==
    /\ cw_pc = "primary"
    /\ \E o \in OpenRouterCallOutcomes :
        IF o.kind = "raise"
        THEN /\ cw_pc' = "raised"
             /\ UNCHANGED <<result, cw_returned, invocations>>
        ELSE /\ result' = o.value
             /\ IF NeedsSecondary(o.value, cw_config)
                THEN /\ cw_pc' = "secondary"
                     /\ invocations' =
                            Append(invocations,
                                   Invocation("together", "call",
                                              cw_config.together_fallback, cw_args))
                     /\ UNCHANGED cw_returned
                ELSE /\ cw_pc' = "returned"
                     /\ cw_returned' = o.value
                     /\ UNCHANGED invocations
    /\ UNCHANGED <<cw_config, cw_args, together_result, sw_vars, jm, client_vars, ed, ui, app>>

\* the secondary call ends and call_with_fallback returns
CWSecondaryEnds ==
    /\ cw_pc = "secondary"
    /\ \E o \in TogetherCallOutcomes :
        /\ together_result' = o.value
        /\ cw_returned' = IF o.value["ok"]
                          THEN MarkFallbackUsed(o.value, result, cw_config)
                          ELSE MarkFallbackFailed(result, o.value)
    /\ cw_pc' = "returned"
    /\ UNCHANGED <<cw_config, cw_args, result, invocations, sw_vars, jm, client_vars, ed, ui, app>>


\* ------------------------------------------------------- provider streams
\* the text fragments a provider delivers
Frags == { <<"x">>, <<"y">> }

\* What resuming a generator gives: a yielded chunk, nothing yet (the generator
\* went on without yielding, or ended: gen.phase = "ended"), or an exception.
Yielded(g, chunk) == [gen |-> g, kind |-> "yield", chunk |-> chunk]
Silent(g) == [gen |-> g, kind |-> "none"]
Raised(g, msg) == [gen |-> [g EXCEPT !.phase = "ended"], kind |-> "raise", msg |-> msg]

\* the first backoff delay of each client, in 1/64 s
ORBackoff == 32
HFBackoff == 64
TGBackoff == 64

\* OpenRouterClient.stream, before its first resumption
ORNew(retries) ==
    [phase |-> "post", attempt |-> 1, retries |-> retries,
     accumulated_text |-> EmptyStr, sleeps |-> 0, n |-> 0,
     \* backoff, whether the failure just yielded was a 429, and the delays
     \* of the sleeps so far
     backoff |-> ORBackoff, rate_limited |-> FALSE, slept |-> << >>]

\* what the network can do next to OpenRouterClient.stream in state g
OREvents(g) ==
    CASE g.phase = "post" ->
            {"http_429", "http_200", "timeout", "request_exception"}
            \cup { "http_" \o s : s \in OtherStatuses }
      [] g.phase = "lines" ->
            (IF g.n < MaxChunks THEN {"data_x", "data_y"} ELSE {})
            \cup {"done", "request_exception", "decode_error"}
      [] OTHER -> {"resume"}

StatusOf(ev) == CHOOSE s \in OtherStatuses : ev = "http_" \o s
FragOf(ev) == IF ev = "data_x" THEN <<"x">> ELSE <<"y">>

\* "if attempt < retries" of openrouter.py:190, 245, 257
ORStreamRetries(attempt, retries) == attempt < retries

\* OpenRouterClient.stream resumed, the network doing ev: openrouter.py:171-264
ORStep(g, ev) ==
    CASE g.phase = "post" /\ ev = "http_429" ->
            Yielded([g EXCEPT !.phase = "failed_retry", !.rate_limited = TRUE],
                    [ok |-> FALSE, status |-> "429",
                     text |-> <<"Rate limited - please wait">>, elapsed |-> Elapsed])
      [] g.phase = "post" /\ ev \in { "http_" \o s : s \in OtherStatuses } ->
            Yielded([g EXCEPT !.phase = "stop"],
                    [ok |-> FALSE, status |-> StatusOf(ev),
                     text |-> <<"API error: ", StatusOf(ev)>>, elapsed |-> Elapsed])
      [] g.phase = "post" /\ ev = "http_200" ->
            Silent([g EXCEPT !.phase = "lines", !.accumulated_text = EmptyStr])
      [] g.phase = "post" /\ ev = "timeout" ->
            Yielded([g EXCEPT !.phase = "failed_retry"],
                    [ok |-> FALSE, status |-> "timeout",
                     text |-> <<"Stream timed out after ", "<timeout>", "s">>,
                     elapsed |-> <<"<timeout>">>])
      [] g.phase \in {"post", "lines"} /\ ev = "request_exception" ->
            Yielded([g EXCEPT !.phase = "failed_retry"],
                    [ok |-> FALSE, status |-> "request_exception",
                     text |-> <<"Stream error: ", "<exception>">>, elapsed |-> None])
      [] g.phase = "lines" /\ ev \in {"data_x", "data_y"} ->
            Yielded([g EXCEPT !.accumulated_text = @ \o FragOf(ev), !.n = @ + 1],
                    [ok |-> TRUE, text |-> FragOf(ev)])
      [] g.phase = "lines" /\ ev = "done" ->
            Yielded([g EXCEPT !.phase = "stop"],
                    [ok |-> TRUE, final |-> TRUE, text |-> g.accumulated_text,
                     usage |-> None, elapsed |-> Elapsed])
      [] g.phase = "lines" /\ ev = "decode_error" ->
            Raised(g, <<"'utf-8' codec can't decode byte">>)
      [] g.phase = "failed_retry" /\ ORStreamRetries(g.attempt, g.retries) ->
            Silent([g EXCEPT !.phase = "post", !.attempt = @ + 1, !.sleeps = @ + 1,
                             !.slept = Append(@, IF g.rate_limited THEN g.backoff * 2
                                                 ELSE g.backoff),
                             !.backoff = IF g.rate_limited THEN @ * 2 ELSE (@ * 3) \div 2,
                             !.rate_limited = FALSE])
      [] OTHER -> Silent([g EXCEPT !.phase = "ended"])

\* the exceptions the Together SDK raises, by the words of str(e)
TogetherErrors ==
    { <<"Error code: ", "404">>, <<"401", " ", "unauthorized">>,
      <<"read ", "timeout">>, <<"invalid request">>,
      \* an exception constructed without a message: str(e) == ""
      EmptyStr }

HasPiece(msg, pieces) == \E i \in 1..Len(msg) : msg[i] \in pieces

\* TogetherAIClient.stream, before its first resumption
TGNew(model_id, retries) ==
    [phase |-> "create", attempt |-> 1, retries |-> retries, model_id |-> model_id,
     sleeps |-> 0, n |-> 0, backoff |-> TGBackoff, slept |-> << >>]

\* what the SDK can do next to TogetherAIClient.stream in state g: an event
\* name, or an exception (its message)
TGEvents(g) ==
    CASE g.phase = "create" -> { <<"opened">> } \cup TogetherErrors
      [] g.phase = "chunks" ->
            (IF g.n < MaxChunks THEN { <<"data_x">>, <<"data_y">> } ELSE {})
            \cup { <<"end">> } \cup TogetherErrors
      [] OTHER -> { <<"resume">> }

\* the except clause yielding a failure chunk before it retries
TGExceptYieldsAndRetries(g, error_msg) ==
    IF g.attempt < g.retries
       /\ HasPiece(error_msg, {"timeout", "connection", "network", "503"})
    THEN Yielded([g EXCEPT !.phase = "create", !.attempt = @ + 1, !.sleeps = @ + 1,
                           !.slept = Append(@, g.backoff), !.backoff = @ * 2],
                 [ok |-> FALSE, status |-> "exception", text |-> error_msg,
                  elapsed |-> None])
    ELSE Yielded([g EXCEPT !.phase = "stop"],
                 [ok |-> FALSE, status |-> "exception", text |-> error_msg,
                  elapsed |-> None])

\* the except clause of TogetherAIClient.stream: together_ai.py:167-200
TGExcept(g, error_msg) ==
    IF HasPiece(error_msg, {"404", "not found"})
    THEN Yielded([g EXCEPT !.phase = "stop"],
                 [ok |-> FALSE, status |-> "404",
                  text |-> <<"Model '">> \o g.model_id \o <<"' not found">>])
    ELSE IF HasPiece(error_msg, {"401", "unauthorized"})
    THEN Yielded([g EXCEPT !.phase = "stop"],
                 [ok |-> FALSE, status |-> "401",
                  text |-> <<"Authentication failed - check your Together AI API key">>])
    ELSE IF g.attempt < g.retries
            /\ HasPiece(error_msg, {"timeout", "connection", "network", "503"})
    THEN Silent([g EXCEPT !.phase = "create", !.attempt = @ + 1, !.sleeps = @ + 1,
                          !.slept = Append(@, g.backoff), !.backoff = @ * 2])
    ELSE Yielded([g EXCEPT !.phase = "stop"],
                 [ok |-> FALSE, status |-> "exception", text |-> error_msg,
                  elapsed |-> None])

\* TogetherAIClient.stream resumed, the SDK doing ev: together_ai.py:130-207
TGStep(g, ev) ==
    CASE g.phase \in {"create", "chunks"} /\ ev \in TogetherErrors -> TGExcept(g, ev)
      [] g.phase = "create" /\ ev = <<"opened">> ->
            Silent([g EXCEPT !.phase = "chunks"])
      [] g.phase = "chunks" /\ ev \in { <<"data_x">>, <<"data_y">> } ->
            Yielded([g EXCEPT !.n = @ + 1], [ok |-> TRUE, text |-> FragOf(ev[1])])
      [] g.phase = "chunks" /\ ev = <<"end">> ->
            Yielded([g EXCEPT !.phase = "stop"],
                    [ok |-> TRUE, final |-> TRUE, usage |-> <<"{}">>,
                     elapsed |-> Elapsed])
      [] OTHER -> Silent([g EXCEPT !.phase = "ended"])

\* Every dict HuggingFaceClient.call returns, and the exception it raises where
\* the payload is not of the shape lines 89-92 index into: huggingface.py:59-105
HFTexts ==
    { EmptyStr, <<"a">>, <<"a", " ", "b">>,
      <<"a", " ", "b", " ", "c", " ", "d", " ", "e", " ", "f", " ", "g">>,
      <<"a", " ", " ", "b", "\n", "c">> }

HuggingFaceCallOutcomes ==
    { Return([ok |-> FALSE, status |-> st, text |-> <<"<message ", st, ">">>,
              elapsed |-> Elapsed])
      : st \in {"404", "401", "503", "429", "500", "parse_error"} }
    \cup { Return([ok |-> FALSE, status |-> "request_exception",
                   text |-> <<"<exception>">>, elapsed |-> None]) }
    \cup { Return([ok |-> TRUE, text |-> t, elapsed |-> Elapsed, raw |-> <<"<data>">>])
           : t \in HFTexts }
    \cup { Raise(<<"'NoneType' object has no attribute 'strip'">>) }

\* " ".join(words)
RECURSIVE JoinSpace(_)
JoinSpace(words) ==
    IF words = << >> THEN << >>
    ELSE IF Len(words) = 1 THEN words[1]
    ELSE words[1] \o <<" ">> \o JoinSpace(Tail(words))

\* huggingface.py:132
ChunkSizes == <<1, 2, 3>>

\* lines 139-145 taking one word more in the middle
ChunkSizeWide(current_pos, total_words) ==
    IF 5 * current_pos < total_words THEN 1
    ELSE IF 5 * current_pos > 4 * total_words THEN 1
    ELSE ChunkSizes[(current_pos % Len(ChunkSizes)) + 1] + 1

\* huggingface.py:139-145: the number of words of the chunk starting at
\* current_pos (progress below 0.2 or above 0.8 gives 1)
ChunkSize(current_pos, total_words) ==
    IF 5 * current_pos < total_words THEN 1
    ELSE IF 5 * current_pos > 4 * total_words THEN 1
    ELSE ChunkSizes[(current_pos % Len(ChunkSizes)) + 1]

\* HuggingFaceClient.stream, before its first resumption
HFNew == [phase |-> "call", words |-> << >>, current_pos |-> 0]

\* what can happen next to HuggingFaceClient.stream in state g
HFEvents(g) ==
    IF g.phase = "call" THEN HuggingFaceCallOutcomes ELSE { Return([resume |-> TRUE]) }

\* huggingface.py:118-127: after self.call
HFAfterCall(g, res) ==
    IF ~res["ok"]
    THEN Yielded([g EXCEPT !.phase = "stop"],
                 [ok |-> FALSE, status |-> res["status"],
                  text |-> <<"HuggingFace API error: ">> \o res["text"]])
    ELSE IF ~Truthy(res["text"])
    THEN Yielded([g EXCEPT !.phase = "stop"],
                 [ok |-> FALSE, status |-> "empty_response",
                  text |-> <<"No text generated">>])
    ELSE Silent([g EXCEPT !.phase = "words", !.words = SplitWords(res["text"])])

\* lines 137-171 going round the loop again after the final chunk
HFNextChunkNoReturn(g, end_pos) ==
    IF g.current_pos < Len(g.words)
    THEN Yielded([g EXCEPT !.current_pos = end_pos],
                 [ok |-> TRUE,
                  text |-> JoinSpace(SubSeq(g.words, g.current_pos + 1, end_pos))
                           \o <<" ">>])
    ELSE Yielded(g, [ok |-> TRUE, final |-> TRUE, usage |-> <<"<usage>">>,
                     elapsed |-> Elapsed])

\* huggingface.py:137-171: the next simulated chunk, or the final chunk
HFNextChunk(g, end_pos) ==
    IF g.current_pos < Len(g.words)
    THEN Yielded([g EXCEPT !.current_pos = end_pos],
                 [ok |-> TRUE,
                  text |-> JoinSpace(SubSeq(g.words, g.current_pos + 1, end_pos))
                           \o <<" ">>])
    ELSE Yielded([g EXCEPT !.phase = "stop"],
                 [ok |-> TRUE, final |-> TRUE, usage |-> <<"<usage>">>,
                  elapsed |-> Elapsed])

\* huggingface.py:147
EndPos(current_pos, chunk_size, total_words) ==
    IF current_pos + chunk_size < total_words
    THEN current_pos + chunk_size ELSE total_words

\* HuggingFaceClient.stream resumed: huggingface.py:117-171
HFStep(g, ev) ==
    CASE g.phase = "call" /\ ev.kind = "raise" -> Raised(g, ev.msg)
      [] g.phase = "call" /\ ev.kind = "return" -> HFAfterCall(g, ev.value)
      [] g.phase = "words" ->
            HFNextChunk(g, EndPos(g.current_pos,
                                  ChunkSize(g.current_pos, Len(g.words)),
                                  Len(g.words)))
      [] OTHER -> Silent([g EXCEPT !.phase = "ended"])

\* ---------------------------------------------------- stream_with_fallback
NoGen == [phase |-> "none"]

SWInit ==
    /\ sw_pc = "idle"
    /\ sw_config = [id |-> PrimaryId, together_fallback |-> None]
    /\ sw_args = CHOOSE a \in RequestArgs : a.retries = 3
    /\ or_gen = NoGen
    /\ tg_gen = NoGen
    /\ needs_fallback = FALSE
    /\ original_error = None
    /\ out = << >>
    /\ primary_yields = << >>
    /\ secondary_yields = << >>

\* the synthetic chunk of client_manager.py:109
SwitchNotice(error, model_config) ==
    [ok |-> TRUE,
     text |-> <<"\n\n[Primary model failed: ">> \o error
              \o <<". Switching to fallback: ">> \o model_config.together_fallback
              \o <<"]\n\n">>]

\* line 130 yielding an ok chunk
NoFallbackChunkOk(error) ==
    [ok |-> TRUE,
     text |-> <<"Primary model failed and no fallback available: ">> \o error]

\* the chunk of client_manager.py:130
NoFallbackChunk(error) ==
    [ok |-> FALSE, status |-> "no_fallback",
     text |-> <<"Primary model failed and no fallback available: ">> \o error,
     elapsed |-> None]

\* the chunk of client_manager.py:127
FallbackExceptionChunk(msg) ==
    [ok |-> FALSE, status |-> "fallback_exception", text |-> msg, elapsed |-> None]

\* lines 121-124 without the test of "final"
TagSecondaryEveryChunk(chunk, error, model_config) ==
    DictSet(DictSet(DictSet(chunk, "fallback_used", TRUE),
                    "fallback_model", model_config.together_fallback),
            "original_error", error)

\* client_manager.py:121-124: a secondary chunk as it is yielded
TagSecondary(chunk, error, model_config) ==
    IF Get(chunk, "final", FALSE)
    THEN DictSet(DictSet(DictSet(chunk, "fallback_used", TRUE),
                         "fallback_model", model_config.together_fallback),
                 "original_error", error)
    ELSE chunk

\* line 96 reading the message from the chunk's "error" key, with no default
PrimaryErrorWrongKey(chunk) == Get(chunk, "error", None)

\* client_manager.py:96: what the coordinator keeps of a primary failure chunk
PrimaryError(chunk) == Get(chunk, "text", <<"OpenRouter failed">>)

\* stream_with_fallback is called and first resumed
SWStart ==
    /\ sw_pc = "idle"
    /\ cw_pc = "idle"
    /\ \A r \in Runs : jm[r].pc = "idle"
    /\ ClientsIdle
    /\ \E mc \in ModelConfigs, a \in RequestArgs :
        /\ sw_config' = mc
        /\ sw_args' = a
        /\ or_gen' = ORNew(a.retries)
        /\ invocations' = Append(invocations,
                                 Invocation("openrouter", "stream", mc.id, a))
    /\ sw_pc' = "primary"
    /\ UNCHANGED <<tg_gen, needs_fallback, original_error, out, primary_yields,
                   secondary_yields, cw_vars, jm, client_vars, ed, ui, app>>

\* client_manager.py:107-130, reached with needs_fallback set to error: the
\* switch to the secondary, or the failure chunk when there is none
SWAfterPrimaryFailure(error) ==
    /\ needs_fallback' = TRUE
    /\ original_error' = error
    /\ IF Truthy(sw_config.together_fallback)
       THEN /\ out' = Append(out, SwitchNotice(error, sw_config))
            /\ tg_gen' = TGNew(sw_config.together_fallback, sw_args.retries)
            /\ invocations' =
                   Append(invocations,
                          Invocation("together", "stream",
                                     sw_config.together_fallback, sw_args))
            /\ sw_pc' = "secondary"
       ELSE /\ out' = Append(out, NoFallbackChunk(error))
            /\ sw_pc' = "done"
            /\ UNCHANGED <<tg_gen, invocations>>

\* the primary generator goes on without yielding (the request is accepted)
SWPrimaryWaits ==
    /\ sw_pc = "primary"
    /\ \E ev \in OREvents(or_gen) :
        LET r == ORStep(or_gen, ev) IN
        /\ r.kind = "none"
        /\ or_gen' = r.gen
        /\ sw_pc' = IF r.gen.phase = "ended" THEN "done" ELSE "primary"
    /\ UNCHANGED <<sw_config, sw_args, tg_gen, needs_fallback, original_error, out,
                   primary_yields, secondary_yields, invocations, cw_vars, jm, client_vars, ed, ui, app>>

\* the primary yields an ok chunk: it is forwarded (client_manager.py:98-101)
SWForwardPrimary ==
    /\ sw_pc = "primary"
    /\ \E ev \in OREvents(or_gen) :
        LET r == ORStep(or_gen, ev) IN
        /\ r.kind = "yield"
        /\ r.chunk["ok"]
        /\ or_gen' = r.gen
        /\ primary_yields' = Append(primary_yields, r.chunk)
        /\ out' = Append(out, r.chunk)
        /\ sw_pc' = IF Get(r.chunk, "final", FALSE) THEN "done" ELSE "primary"
    /\ UNCHANGED <<sw_config, sw_args, tg_gen, needs_fallback, original_error,
                   secondary_yields, invocations, cw_vars, jm, client_vars, ed, ui, app>>

\* the primary yields a failure chunk (client_manager.py:93-97)
SWPrimaryFails ==
    /\ sw_pc = "primary"
    /\ \E ev \in OREvents(or_gen) :
        LET r == ORStep(or_gen, ev) IN
        /\ r.kind = "yield"
        /\ ~r.chunk["ok"]
        /\ or_gen' = r.gen
        /\ primary_yields' = Append(primary_yields, r.chunk)
        /\ SWAfterPrimaryFailure(PrimaryError(r.chunk))
    /\ UNCHANGED <<sw_config, sw_args, secondary_yields, cw_vars, jm, client_vars, ed, ui, app>>

\* the primary raises (client_manager.py:102-105)
SWPrimaryRaises ==
    /\ sw_pc = "primary"
    /\ \E ev \in OREvents(or_gen) :
        LET r == ORStep(or_gen, ev) IN
        /\ r.kind = "raise"
        /\ or_gen' = r.gen
        /\ SWAfterPrimaryFailure(r.msg)
    /\ UNCHANGED <<sw_config, sw_args, primary_yields, secondary_yields, cw_vars, jm, client_vars, ed, ui, app>>

\* the secondary goes on without yielding (stream opened, a retry) or ends
SWSecondaryWaits ==
    /\ sw_pc = "secondary"
    /\ \E ev \in TGEvents(tg_gen) :
        LET r == TGStep(tg_gen, ev) IN
        /\ r.kind = "none"
        /\ tg_gen' = r.gen
        /\ sw_pc' = IF r.gen.phase = "ended" THEN "done" ELSE "secondary"
    /\ UNCHANGED <<sw_config, sw_args, or_gen, needs_fallback, original_error, out,
                   primary_yields, secondary_yields, invocations, cw_vars, jm, client_vars, ed, ui, app>>

\* the secondary yields a chunk or raises (client_manager.py:111-127)
SWForwardSecondary ==
    /\ sw_pc = "secondary"
    /\ \E ev \in TGEvents(tg_gen) :
        LET r == TGStep(tg_gen, ev) IN
        /\ r.kind # "none"
        /\ tg_gen' = r.gen
        /\ IF r.kind = "raise"
           THEN /\ out' = Append(out, FallbackExceptionChunk(r.msg))
                /\ sw_pc' = "done"
                /\ UNCHANGED secondary_yields
           ELSE /\ secondary_yields' = Append(secondary_yields, r.chunk)
                /\ out' = Append(out, TagSecondary(r.chunk, original_error, sw_config))
                /\ sw_pc' = "secondary"
    /\ UNCHANGED <<sw_config, sw_args, or_gen, needs_fallback, original_error,
                   primary_yields, invocations, cw_vars, jm, client_vars, ed, ui, app>>

NextStream ==
    \/ SWStart
    \/ SWPrimaryWaits
    \/ SWForwardPrimary
    \/ SWPrimaryFails
    \/ SWPrimaryRaises
    \/ SWSecondaryWaits
    \/ SWForwardSecondary


\* ------------------------------------------------------------ JudgeService
EmptyDict == [k \in {} |-> 0]

\* judge.py:165, 169: the length of the response preview
PreviewChars == 200

\* str(n) for the attempt numbers
Digits == <<"0", "1", "2", "3", "4", "5", "6", "7", "8", "9">>

RECURSIVE ToStr(_)
ToStr(n) == IF n < 10 THEN << Digits[n + 1] >>
            ELSE ToStr(n \div 10) \o << Digits[(n % 10) + 1] >>

ReasoningId == <<"deepseek/", "deepseek-r1", ":free">>

\* the descriptors a judge model is chosen from
JudgeModels ==
    { [id |-> PrimaryId, together_fallback |-> SecondaryId],
      [id |-> ReasoningId, together_fallback |-> None] }

\* How a JudgeService is set up and called: the client it was constructed with,
\* the judge model's descriptor, and whether judge_model_id is the id or the
\* descriptor itself.
\* judge.py:7, 120: an OpenRouterClient and a str, as the signatures declare
DeclaredSetups ==
    { [client |-> "OpenRouterClient", model |-> m, passed_as |-> "id"] : m \in JudgeModels }

\* UI.__init__ and UI.render_main, main.py:25, 283-291: the ClientManager and
\* the ModelCapability
UISetups ==
    { [client |-> "ClientManager", model |-> m, passed_as |-> "config"] : m \in JudgeModels }

JudgeSetups == DeclaredSetups \cup UISetups

\* a text without a decision which is one character longer than the preview
LongText == [i \in 1..(PreviewChars + 1) |-> IF i % 7 = 0 THEN " " ELSE "x"]

\* the messages of a completion whose content, or reasoning, a judge answers in
JudgeMessages ==
    { [content |-> <<"A">>], [content |-> <<"b", "\n">>], [content |-> <<"T", "I", "E">>],
      [content |-> <<"x">>], [content |-> <<" ">>], [content |-> None],
      [content |-> <<" ">>, reasoning |-> <<"x", "\n", "A">>],
      [content |-> LongText] }

\* openrouter.py:114-130: the dict call returns for a completion with this message
ORSuccess(message) ==
    LET content == Get(message, "content", EmptyStr)
        text_out == IF ~Truthy(content) /\ "reasoning" \in DOMAIN message
                    THEN message["reasoning"] ELSE content
    IN [ok |-> TRUE, text |-> text_out, usage |-> <<"<usage>">>, elapsed |-> Elapsed,
        raw |-> [choices |-> << [message |-> message] >>]]

\* What self.client.call can do to judge_once: what OpenRouterClient.call does
\* (failures of two classifiers, completions, an exception) and, of any other
\* client, a dict with fields missing.
JudgeClientOutcomes ==
    { Return(d) : d \in { f \in OpenRouterFailures : f["status"] \in {"429", "401"} } }
    \cup { Return(ORSuccess(m)) : m \in JudgeMessages }
    \cup { Return([ok |-> TRUE]), Return([text |-> <<"A">>]),
           Raise(<<"'str' object has no attribute 'get'">>) }

\* the outcomes that are a failure result, a result with missing or null fields,
\* or a raised exception
JudgeClientFaults ==
    { o \in JudgeClientOutcomes :
        \/ o.kind = "raise"
        \/ ~Get(o.value, "ok", FALSE)
        \/ "text" \notin DOMAIN o.value
        \/ o.value["text"] = None }

\* JudgeService._is_reasoning_model: judge.py:114-118
IsReasoningModel(model_id) ==
    HasPiece(model_id, {"deepseek-r1", "r1-", "reasoning", "think"})

\* JudgeService._extract_response_text: judge.py:80-112 (s.strip() of None raises)
ExtractResponseText(raw_response) ==
    LET text == Get(raw_response, "text", EmptyStr)
        raw_data == Get(raw_response, "raw", EmptyDict)
        noattr == Raise(<<"'NoneType' object has no attribute 'strip'">>)
    IN IF text = None THEN noattr
       ELSE IF ~IsBlank(text) THEN Return(text)
       ELSE IF raw_data = EmptyDict \/ "choices" \notin DOMAIN raw_data THEN Return(EmptyStr)
       ELSE IF raw_data["choices"] = << >> THEN Return(EmptyStr)
       ELSE LET message == Get(raw_data["choices"][1], "message", EmptyDict)
                content == Get(message, "content", EmptyStr)
                reasoning == Get(message, "reasoning", EmptyStr)
            IN IF content = None THEN noattr
               ELSE IF ~IsBlank(content) THEN Return(content)
               ELSE IF reasoning = None THEN noattr
               ELSE IF ~IsBlank(reasoning) THEN Return(reasoning)
               ELSE Return(EmptyStr)

\* line 169 without the slice
ResponsePreviewWhole(response_text) == response_text

\* judge.py:169
ResponsePreview(response_text) ==
    Slice(response_text, 1, IF Len(response_text) < PreviewChars
                            THEN Len(response_text) ELSE PreviewChars)
    \o (IF Len(response_text) > PreviewChars THEN <<"...">> ELSE << >>)

\* the arguments of judge.py:131-138
JudgeCallArgs(model_id, timeout) ==
    [prompt_text |-> <<"<judge prompt>">>,
     max_tokens |-> IF IsReasoningModel(model_id) THEN 800 ELSE 150,
     temperature |-> 0, top_p |-> 100, timeout |-> timeout]

\* judge_once reaches a provider only if judge_model_id is a str (line 126 calls
\* its lower()) and the client has a call method (line 131)
JudgeReachesClient(su) == su.passed_as = "id" /\ su.client = "OpenRouterClient"

\* judge.py:160-174: the result for a response text and the decision found in it
JudgeDecided(res, response_text, decision) ==
    IF Truthy(decision)
    THEN Return([ok |-> TRUE, decision |-> decision, raw |-> res,
                 response_text |->
                     Slice(response_text, 1,
                           IF Len(response_text) < PreviewChars
                           THEN Len(response_text) ELSE PreviewChars)])
    ELSE Return([ok |-> FALSE,
                 reason |-> <<"Could not parse decision from response: '">>
                            \o ResponsePreview(response_text) \o <<"'">>,
                 raw |-> res])

\* the text goes to the extractor without the test for a blank one
JudgeTextUnchecked(res, response_text) ==
    JudgeDecided(res, response_text, ExtractDecision(response_text))

\* judge.py:151-174: the result for an extracted response text
JudgeText(res, response_text) ==
    IF IsBlank(response_text)
    THEN Return([ok |-> FALSE, reason |-> <<"Empty response from judge model">>,
                 raw |-> res])
    ELSE JudgeDecided(res, response_text, ExtractDecision(response_text))

\* judge.py:149-174: extracted is what _extract_response_text returned or raised
JudgeExtracted(res, extracted) ==
    IF extracted.kind = "raise" THEN extracted
    ELSE JudgeText(res, extracted.value)

\* judge.py:140-174: the result for the dict the client returned
JudgeResponse(res) ==
    IF ~Get(res, "ok", FALSE)
    THEN Return([ok |-> FALSE,
                 reason |-> <<"API call failed: ">>
                            \o Get(res, "error", <<"Unknown error">>),
                 raw |-> res])
    ELSE JudgeExtracted(res, ExtractResponseText(res))

\* the try block of judge_once, judge.py:124-174: what it returns or raises when
\* the client, once called, does o
JudgeOnceBody(su, o) ==
    IF su.passed_as # "id"
    THEN Raise(<<"'ModelCapability' object has no attribute 'lower'">>)
    ELSE IF su.client # "OpenRouterClient"
    THEN Raise(<<"'ClientManager' object has no attribute 'call'">>)
    ELSE IF o.kind = "raise" THEN o
    ELSE JudgeResponse(o.value)

\* judge_once without its except clause
Uncaught(r) == r

\* judge.py:176-181: the except clause
CatchAll(r) ==
    IF r.kind = "raise"
    THEN Return([ok |-> FALSE, reason |-> <<"Exception during judgment: ">> \o r.msg,
                 raw |-> EmptyDict])
    ELSE r

\* JudgeService.judge_once, judge.py:120-181
JudgeOnce(su, o) == CatchAll(JudgeOnceBody(su, o))

\* a failed attempt voted under a label of its own
VoteOfFailed(once) ==
    IF once.kind = "return" /\ Get(once.value, "ok", FALSE)
    THEN once.value["decision"] ELSE <<"F", "A", "I", "L">>

\* judge.py:198-211: what one pass of the loop appends, attempt counted from 0
VoteOf(once) ==
    IF once.kind = "return" /\ Get(once.value, "ok", FALSE)
    THEN once.value["decision"] ELSE ERR

\* the attempt numbered from 0 in the error entry
ErrorOfZeroBased(once, attempt) ==
    IF once.kind = "raise"
    THEN << <<"Attempt ">> \o ToStr(attempt) \o <<": Exception - ">> \o once.msg >>
    ELSE IF Get(once.value, "ok", FALSE) THEN << >>
    ELSE << <<"Attempt ">> \o ToStr(attempt) \o <<": ">>
            \o Get(once.value, "reason", <<"Unknown error">>) >>

ErrorOf(once, attempt) ==
    IF once.kind = "raise"
    THEN << <<"Attempt ">> \o ToStr(attempt + 1) \o <<": Exception - ">> \o once.msg >>
    ELSE IF Get(once.value, "ok", FALSE) THEN << >>
    ELSE << <<"Attempt ">> \o ToStr(attempt + 1) \o <<": ">>
            \o Get(once.value, "reason", <<"Unknown error">>) >>

RawCallOf(once) ==
    IF once.kind = "raise" THEN [ok |-> FALSE, reason |-> once.msg] ELSE once.value

\* the order in which the counts dict holds its keys
CountKeys == <<A, B, TIE, ERR>>

\* judge.py:214-216: the four keys, and a key for any other vote
Tally(votes) ==
    [k \in {A, B, TIE, ERR} \cup { votes[i] : i \in 1..Len(votes) } |->
        Cardinality({ i \in 1..Len(votes) : votes[i] = k })]

\* judge.py:232 with ERR kept among the candidates
ValidKeysWithErr == CountKeys

\* judge.py:232: the keys of valid_counts, in order
ValidKeys == SelectSeq(CountKeys, LAMBDA k : k # ERR)

\* judge.py:233: max(valid_counts, key=...) is the first key of the largest count
Winner(counts) ==
    ValidKeys[CHOOSE i \in 1..Len(ValidKeys) :
                  /\ \A j \in 1..Len(ValidKeys) : counts[ValidKeys[j]] <= counts[ValidKeys[i]]
                  /\ \A j \in 1..(i - 1) : counts[ValidKeys[j]] < counts[ValidKeys[i]]]

\* judge.py:239 without the tie rule
FinalDecisionFirstMax(counts) == Winner(counts)

\* judge.py:236-239
FinalDecision(counts) ==
    LET max_count == counts[Winner(counts)]
        tied_winners == { i \in 1..Len(ValidKeys) : counts[ValidKeys[i]] = max_count }
    IN IF Cardinality(tied_winners) > 1 THEN TIE ELSE Winner(counts)

\* judge.py:221-229 defaulting to a label
AllFailedDefaultsTie(votes, errors, raw_calls) ==
    [ok |-> TRUE, decision |-> TIE, votes |-> votes, errors |-> errors]

\* judge.py:221-229
AllFailed(votes, errors, raw_calls) ==
    [ok |-> FALSE,
     reason |-> [message |-> <<"All judgment attempts failed">>, votes |-> votes,
                 errors |-> errors, raw |-> raw_calls]]

\* judge.py:213-258: the result judge_majority returns after its loop
MajorityResult(votes, errors, raw_calls, repeats) ==
    LET counts == Tally(votes)
        valid_votes == counts[A] + counts[B] + counts[TIE]
        base == [ok |-> TRUE, decision |-> FinalDecision(counts), counts |-> counts,
                 votes |-> votes, valid_votes |-> valid_votes,
                 total_attempts |-> repeats]
        with_errors == IF errors # << >> THEN DictSet(base, "errors", errors) ELSE base
    IN IF valid_votes = 0 THEN AllFailed(votes, errors, raw_calls)
       ELSE IF \E i \in 1..Len(raw_calls) : ~Get(raw_calls[i], "ok", FALSE)
       THEN DictSet(with_errors, "raw", raw_calls)
       ELSE with_errors

JMIdle ==
    [pc |-> "idle", setup |-> CHOOSE su \in UISetups : su.model.id = PrimaryId,
     repeats |-> 1, attempt |-> 0, votes |-> << >>, errors |-> << >>,
     raw_calls |-> << >>, result |-> NoDict,
     \* what the client did in each attempt ("not called" if it was not reached)
     \* and what judge_once then did
     client_did |-> << >>, once_did |-> << >>]

JMInit == jm = [r \in Runs |-> JMIdle]

NotCalled == [kind |-> "not called"]

\* judge_majority is called
JMStart(r, setups) ==
    /\ jm[r].pc = "idle"
    /\ cw_pc = "idle"
    /\ sw_pc = "idle"
    /\ \A q \in Runs : q < r => jm[q].pc = "done"
    /\ \A q \in Runs : q > r => jm[q].pc = "idle"
    /\ ClientsIdle
    /\ \E su \in setups, repeats \in 1..MaxRepeats :
        jm' = [jm EXCEPT ![r] = [@ EXCEPT !.pc = "loop", !.setup = su,
                                          !.repeats = repeats]]
    /\ UNCHANGED <<cw_vars, sw_vars, invocations, client_vars, ed, ui, app>>

\* judge.py:197-258: the run after a pass of the loop in which judge_once did
\* once; the last pass goes on to return the result
AfterAttempt(run, did, once) ==
    LET votes == Append(run.votes, VoteOf(once))
        errors == run.errors \o ErrorOf(once, run.attempt)
        raw_calls == Append(run.raw_calls, RawCallOf(once))
        last == run.attempt + 1 = run.repeats
    IN [run EXCEPT !.attempt = @ + 1,
                   !.votes = votes,
                   !.errors = errors,
                   !.raw_calls = raw_calls,
                   !.client_did = Append(@, did),
                   !.once_did = Append(@, once),
                   !.pc = IF last THEN "done" ELSE "loop",
                   !.result = IF last
                              THEN MajorityResult(votes, errors, raw_calls, run.repeats)
                              ELSE @]

\* one pass of the loop of judge_majority, the client doing one of outcomes
JMAttempt(r, outcomes) ==
    /\ jm[r].pc = "loop"
    /\ jm[r].attempt < jm[r].repeats
    /\ \E o \in outcomes :
        /\ jm' = [jm EXCEPT ![r] =
                     AfterAttempt(@, IF JudgeReachesClient(@.setup) THEN o ELSE NotCalled,
                                  JudgeOnce(@.setup, o))]
        /\ invocations' =
               IF JudgeReachesClient(jm[r].setup)
               THEN Append(invocations,
                           Invocation("openrouter", "call", jm[r].setup.model.id,
                                      JudgeCallArgs(jm[r].setup.model.id, 120)))
               ELSE invocations
        \* an outcome the client never gets to produce is not a different step
        /\ JudgeReachesClient(jm[r].setup) \/ o = CHOOSE x \in outcomes : TRUE
    /\ UNCHANGED <<cw_vars, sw_vars, client_vars, ed, ui, app>>

JudgeStart == JMStart(1, JudgeSetups)

JudgeAttempt == JMAttempt(1, JudgeClientOutcomes)

NextJudge == JudgeStart \/ JudgeAttempt

\* Two runs, one after the other, for comparing their results: the setups are
\* the declared one and the UI's, the client answers A, B, TIE or fails.
PairSetups == { su \in JudgeSetups : su.model.id = PrimaryId }

PairOutcomes ==
    { Return(ORSuccess([content |-> t])) : t \in { <<"A">>, <<"b", "\n">>, <<"T", "I", "E">> } }
    \cup { Return(d) : d \in { f \in OpenRouterFailures : f["status"] = "429" } }

PairStart == \E r \in Runs : JMStart(r, PairSetups)

PairAttempt == \E r \in Runs : JMAttempt(r, PairOutcomes)

NextPair == PairStart \/ PairAttempt

\* ---------------------------------------- a provider stream, used on its own
Providers == {"openrouter", "together", "huggingface"}

PSInit ==
    /\ ps_pc = "idle"
    /\ ps_provider = "openrouter"
    /\ ps_gen = NoGen
    /\ ps_out = << >>

\* client.stream(...) is called on one of the provider clients
PSStart ==
    /\ ps_pc = "idle"
    /\ ui.pc = "idle"
    /\ app.pc = "idle"
    /\ pcall.pc = "idle"
    /\ ed.pc = "idle"
    /\ cw_pc = "idle"
    /\ sw_pc = "idle"
    /\ \A r \in Runs : jm[r].pc = "idle"
    /\ \E pr \in Providers, retries \in 1..MaxRetries :
        /\ ps_provider' = pr
        /\ ps_gen' = CASE pr = "openrouter" -> ORNew(retries)
                       [] pr = "together" -> TGNew(SecondaryId, retries)
                       [] OTHER -> HFNew
    /\ ps_pc' = "running"
    /\ UNCHANGED <<ps_out, cw_vars, sw_vars, jm, invocations, pcall, ed, ui, app>>

\* what a resumption that did r leaves behind
PSAfter(r) ==
    /\ ps_gen' = r.gen
    /\ ps_out' = IF r.kind = "yield" THEN Append(ps_out, r.chunk) ELSE ps_out
    /\ ps_pc' = IF r.kind = "raise" THEN "raised"
                ELSE IF r.gen.phase = "ended" THEN "ended"
                ELSE "running"

\* the consumer resumes the generator (next(gen)) until it ends
PSResume ==
    /\ ps_pc = "running"
    /\ \/ /\ ps_provider = "openrouter"
          /\ \E ev \in OREvents(ps_gen) : PSAfter(ORStep(ps_gen, ev))
       \/ /\ ps_provider = "together"
          /\ \E ev \in TGEvents(ps_gen) : PSAfter(TGStep(ps_gen, ev))
       \/ /\ ps_provider = "huggingface"
          /\ \E ev \in HFEvents(ps_gen) : PSAfter(HFStep(ps_gen, ev))
    /\ UNCHANGED <<ps_provider, cw_vars, sw_vars, jm, invocations, pcall, ed, ui, app>>

NextProviderStream == PSStart \/ PSResume

\* ------------------------------------------- provider calls, attempt by attempt

MaxOf(a, b) == IF a >= b THEN a ELSE b
MinOf(a, b) == IF a <= b THEN a ELSE b

\* max_tokens, temperature and top_p as a caller supplies them (temperature
\* and top_p in hundredths)
CallerParams ==
    { [max_tokens |-> 256, temperature |-> 70, top_p |-> 90],
      [max_tokens |-> 1, temperature |-> 0, top_p |-> 10],
      [max_tokens |-> 0, temperature |-> -50, top_p |-> 0],
      [max_tokens |-> 5000, temperature |-> 250, top_p |-> 150] }

\* OpenRouterClient._create_request_body: openrouter.py:17-34
ORCreateRequestBody(model_id, prompt_text, p) ==
    [model |-> model_id,
     messages |-> << [role |-> "user", content |-> prompt_text] >>,
     temperature |-> MaxOf(0, MinOf(100, p.temperature)),
     top_p |-> MaxOf(10, MinOf(100, p.top_p)),
     max_tokens |-> MaxOf(1, MinOf(2048, p.max_tokens)),
     stream |-> FALSE]

\* HuggingFaceClient._create_request_body: huggingface.py:16-32
HFCreateRequestBody(prompt_text, p) ==
    [inputs |-> prompt_text,
     parameters |-> [max_new_tokens |-> p.max_tokens,
                     temperature |-> p.temperature,
                     top_p |-> p.top_p,
                     return_full_text |-> FALSE,
                     do_sample |-> p.temperature > 0]]

\* the arguments of client.chat.completions.create: together_ai.py:28-37
TGCreateArgs(model_id, prompt_text, p) ==
    [model |-> model_id,
     messages |-> << [role |-> "user", content |-> prompt_text] >>,
     max_tokens |-> p.max_tokens,
     temperature |-> p.temperature,
     top_p |-> p.top_p]

\* time.sleep(delay), the backoff becoming next, and the loop going on
Retry(delay, next) == [kind |-> "retry", sleep |-> delay, backoff |-> next]

\* "for attempt in range(1, retries + 1)" has a further attempt to make
InRange(attempt, retries) == attempt <= retries

\* the return statement after the loop of each call
ExceededRetries ==
    [ok |-> FALSE, status |-> "unknown", text |-> <<"Exceeded retries">>,
     elapsed |-> None]

\* What the endpoint does with one request of OpenRouterClient.call: a status
\* other than 200, no response at all, or 200 with one of these bodies.
ORBodies ==
    { "invalid_json",      \* not JSON
      "null",              \* JSON null
      "no_choices_key",    \* {}
      "empty_choices",     \* {"choices": []}
      "choice_not_dict",   \* {"choices": ["text"]}
      "message_null",      \* {"choices": [{"message": null}]}
      "content_null",      \* {"choices": [{"message": {"content": null}}]}
      "reasoning_only",    \* ... {"content": "", "reasoning": "ok"}
      "content" }          \* ... {"content": "ok"}

ORResponses ==
    {"429", "502", "503"} \cup OtherStatuses
    \cup {"timeout", "request_exception"} \cup ORBodies

\* the dict OpenRouterClient.call returns with a status
ORFailure(status) == CHOOSE d \in OpenRouterFailures : d.status = status

\* a 200 response is parsed: openrouter.py:93-130
ORParse(body) ==
    CASE body = "invalid_json" -> Return(ORFailure("json_error"))
      [] body = "null" ->
            Raise(<<"argument of type 'NoneType' is not iterable">>)
      [] body \in {"no_choices_key", "empty_choices"} ->
            Return(ORFailure("no_choices"))
      [] body = "choice_not_dict" ->
            Raise(<<"'str' object has no attribute 'get'">>)
      [] body = "message_null" ->
            Raise(<<"'NoneType' object has no attribute 'get'">>)
      [] body = "content_null" ->
            Return([ok |-> TRUE, text |-> None, usage |-> <<"<usage>">>,
                    elapsed |-> Elapsed, raw |-> RawOf(None)])
      [] OTHER ->
            Return([ok |-> TRUE, text |-> <<"o", "k">>, usage |-> <<"<usage>">>,
                    elapsed |-> Elapsed, raw |-> RawOf(<<"o", "k">>)])

\* a 429 is slept on and retried whatever the attempt
ORCallStepSleepsOnLast(attempt, retries, backoff, response) ==
    CASE response = "429" -> Retry(backoff * 2, backoff * 2)
      [] response \in {"502", "503", "timeout", "request_exception"} ->
            IF attempt = retries THEN Return(ORFailure(response))
            ELSE Retry(backoff, (backoff * 3) \div 2)
      [] response \in OtherStatuses -> Return(ORFailure(response))
      [] OTHER -> ORParse(response)

\* one attempt of OpenRouterClient.call: openrouter.py:49-152
ORCallStep(attempt, retries, backoff, response) ==
    CASE response = "429" ->
            IF attempt = retries THEN Return(ORFailure("429"))
            ELSE Retry(backoff * 2, backoff * 2)
      [] response \in {"502", "503", "timeout", "request_exception"} ->
            IF attempt = retries THEN Return(ORFailure(response))
            ELSE Retry(backoff, (backoff * 3) \div 2)
      [] response \in OtherStatuses -> Return(ORFailure(response))
      [] OTHER -> ORParse(response)

\* What the endpoint does with one request of HuggingFaceClient.call.  A body
\* that is not JSON makes resp.json() raise an exception that is a
\* RequestException in some versions of requests and a ValueError in others.
HFBodies ==
    { "invalid_json_request_exception", "invalid_json_value_error",
      "number",            \* 7
      "empty_list",        \* []
      "list_of_str",       \* ["text"]
      "text_null",         \* [{"generated_text": null}]
      "list",              \* [{"generated_text": " a b "}]
      "dict" }             \* {"generated_text": "a b"}

HFResponses ==
    {"404", "401", "503", "429", "500", "request_exception"} \cup HFBodies

\* the dict HuggingFaceClient.call returns with a status
HFFailure(status) ==
    (CHOOSE o \in HuggingFaceCallOutcomes :
        o.kind = "return" /\ ~o.value.ok /\ o.value.status = status).value

\* a RequestException is caught: huggingface.py:99-103
HFExcept(attempt, retries, backoff) ==
    IF attempt = retries THEN Return(HFFailure("request_exception"))
    ELSE Retry(backoff, backoff * 2)

\* a 200 response is parsed: huggingface.py:87-97
HFParse(attempt, retries, backoff, body) ==
    CASE body = "invalid_json_request_exception" ->
            HFExcept(attempt, retries, backoff)
      [] body = "invalid_json_value_error" ->
            Raise(<<"Expecting value: line 1 column 1 (char 0)">>)
      [] body \in {"number", "empty_list"} -> Return(HFFailure("parse_error"))
      [] body = "list_of_str" ->
            Raise(<<"'str' object has no attribute 'get'">>)
      [] body = "text_null" ->
            Raise(<<"'NoneType' object has no attribute 'strip'">>)
      [] body = "list" ->
            Return([ok |-> TRUE, text |-> Strip(<<" ", "a", " ", "b", " ">>),
                    elapsed |-> Elapsed, raw |-> <<"<data>">>])
      [] OTHER ->
            Return([ok |-> TRUE, text |-> Strip(<<"a", " ", "b">>),
                    elapsed |-> Elapsed, raw |-> <<"<data>">>])

\* one attempt of HuggingFaceClient.call: huggingface.py:48-103
HFCallStep(attempt, retries, backoff, response) ==
    CASE response \in {"404", "401", "429", "500"} ->
            Return(HFFailure(response))
      [] response = "503" ->
            IF attempt < retries THEN Retry(backoff, backoff * 2)
            ELSE Return(HFFailure("503"))
      [] response = "request_exception" -> HFExcept(attempt, retries, backoff)
      [] OTHER -> HFParse(attempt, retries, backoff, response)

\* What the SDK does with one request of TogetherAIClient.call: it returns a
\* response object or raises an exception, given by the words of str(e).
TGBodies ==
    { <<"no_choices">>,    \* response.choices is empty
      <<"content_null">>,  \* choices[0].message.content is None
      <<"content">> }      \* choices[0].message.content is " ok "

TGCallErrors ==
    TogetherErrors
    \cup { <<"Error code: ", "429">>, <<"Error code: ", "503">>,
           <<"Error code: ", "500">>, <<"connection", " reset">> }

TGResponses == TGBodies \cup TGCallErrors

\* the dict TogetherAIClient.call returns with a status
TGFailure(status) == CHOOSE d \in TogetherFailures : d.status = status

\* the except clause of TogetherAIClient.call: together_ai.py:68-109
TGCallExcept(attempt, retries, backoff, error_msg) ==
    IF HasPiece(error_msg, {"404", "not found"})
    THEN Return(TGFailure("404"))
    ELSE IF HasPiece(error_msg, {"401", "unauthorized"})
    THEN Return(TGFailure("401"))
    ELSE IF HasPiece(error_msg, {"rate limit", "429"})
    THEN Return(TGFailure("429"))
    ELSE IF /\ attempt < retries
            /\ HasPiece(error_msg, {"timeout", "connection", "network", "503"})
    THEN Retry(backoff, backoff * 2)
    ELSE Return([ok |-> FALSE, status |-> "exception", text |-> error_msg,
                 elapsed |-> Elapsed])

\* one attempt of TogetherAIClient.call: together_ai.py:25-109
TGCallStep(attempt, retries, backoff, response) ==
    CASE response \in TGCallErrors ->
            TGCallExcept(attempt, retries, backoff, response)
      [] response = <<"no_choices">> -> Return(TGFailure("parse_error"))
      [] response = <<"content_null">> ->
            TGCallExcept(attempt, retries, backoff,
                         <<"'NoneType' object has no attribute 'strip'">>)
      [] OTHER ->
            Return([ok |-> TRUE, text |-> Strip(<<" ", "o", "k", " ">>),
                    usage |-> <<"{}">>, elapsed |-> Elapsed,
                    raw |-> <<"<response object>">>])

\* a call of one provider client, followed to its end
PCIdle ==
    [pc |-> "idle", provider |-> "openrouter", retries |-> 0, attempt |-> 0,
     backoff |-> 0, body |-> NoDict, trace |-> << >>, result |-> NoDict]

PCInit == pcall = PCIdle

\* the request body built before the loop, and the first backoff
PCBody(provider, p) ==
    CASE provider = "openrouter" -> ORCreateRequestBody(PrimaryId, <<"prompt-1">>, p)
      [] provider = "huggingface" -> HFCreateRequestBody(<<"prompt-1">>, p)
      [] OTHER -> TGCreateArgs(SecondaryId, <<"prompt-1">>, p)

PCBackoff(provider) ==
    CASE provider = "openrouter" -> ORBackoff
      [] provider = "huggingface" -> HFBackoff
      [] OTHER -> TGBackoff

\* client.call(...) is called on one of the provider clients
PCStart ==
    /\ pcall.pc = "idle"
    /\ ui.pc = "idle"
    /\ app.pc = "idle"
    /\ ed.pc = "idle"
    /\ ps_pc = "idle"
    /\ cw_pc = "idle"
    /\ sw_pc = "idle"
    /\ \A r \in Runs : jm[r].pc = "idle"
    /\ \E pr \in Providers, retries \in 0..MaxRetries, p \in CallerParams :
        pcall' = [pc |-> "loop", provider |-> pr, retries |-> retries,
                  attempt |-> 1, backoff |-> PCBackoff(pr),
                  body |-> PCBody(pr, p), trace |-> << >>, result |-> NoDict]
    /\ UNCHANGED <<cw_vars, sw_vars, jm, invocations, ps_vars, ed, ui, app>>

\* the entries of the trace of a call: a request sent with the response it
\* got, and a backoff sleep
Requested(body, response) == [op |-> "request", body |-> body, response |-> response]
Slept(delay) == [op |-> "sleep", delay |-> delay]

\* an attempt that does not count against the budget when it is retried
PCAfterSameAttempt(response, r) ==
    pcall' =
        CASE r.kind = "return" ->
                [pcall EXCEPT !.pc = "returned", !.result = r.value,
                              !.trace = Append(@, Requested(pcall.body, response))]
          [] r.kind = "raise" ->
                [pcall EXCEPT !.pc = "raised", !.result = [raised |-> r.msg],
                              !.trace = Append(@, Requested(pcall.body, response))]
          [] OTHER ->
                [pcall EXCEPT !.backoff = r.backoff,
                              !.trace = Append(Append(@, Requested(pcall.body, response)),
                                               Slept(r.sleep))]

\* what an attempt that got response and did r leaves behind
PCAfter(response, r) ==
    pcall' =
        CASE r.kind = "return" ->
                [pcall EXCEPT !.pc = "returned", !.result = r.value,
                              !.trace = Append(@, Requested(pcall.body, response))]
          [] r.kind = "raise" ->
                [pcall EXCEPT !.pc = "raised", !.result = [raised |-> r.msg],
                              !.trace = Append(@, Requested(pcall.body, response))]
          [] OTHER ->
                [pcall EXCEPT !.attempt = @ + 1, !.backoff = r.backoff,
                              !.trace = Append(Append(@, Requested(pcall.body, response)),
                                               Slept(r.sleep))]

\* one pass through the body of the retry loop
PCAttempt ==
    /\ pcall.pc = "loop"
    /\ InRange(pcall.attempt, pcall.retries)
    /\ \/ /\ pcall.provider = "openrouter"
          /\ \E response \in ORResponses :
                PCAfter(<<response>>, ORCallStep(pcall.attempt, pcall.retries,
                                                 pcall.backoff, response))
       \/ /\ pcall.provider = "huggingface"
          /\ \E response \in HFResponses :
                PCAfter(<<response>>, HFCallStep(pcall.attempt, pcall.retries,
                                                 pcall.backoff, response))
       \/ /\ pcall.provider = "together"
          /\ \E response \in TGResponses :
                PCAfter(response, TGCallStep(pcall.attempt, pcall.retries,
                                             pcall.backoff, response))
    /\ UNCHANGED <<cw_vars, sw_vars, jm, invocations, ps_vars, ed, ui, app>>

\* the loop is over without a return: the statement after it
PCExhausted ==
    /\ pcall.pc = "loop"
    /\ ~InRange(pcall.attempt, pcall.retries)
    /\ pcall' = [pcall EXCEPT !.pc = "returned", !.result = ExceededRetries]
    /\ UNCHANGED <<cw_vars, sw_vars, jm, invocations, ps_vars, ed, ui, app>>

NextProviderCall == PCStart \/ PCAttempt \/ PCExhausted

\* ------------------------------------------- the decision extractor, called
\* response texts handed to _extract_decision
DecisionTexts ==
    { <<"A", "\n">>,
      <<"T", "I", "E", "\n", "B", "\n", "A">>,
      <<"b", " ", "w", "i", "n", "s", "\n", "t", "i", "e", "\n", " ", "a", " ">>,
      <<"A", " ", "i", "s", " ", "b", "e", "t", "t", "e", "r", "\n", "\n", "b", "\n", " ",
         "\n">>,
      <<"a", "\n", "t", "i", "e">>,
      <<"B", "\n", "n", "o", "t", " ", "s", "u", "r", "e">>,
      <<"A", " ", "i", "s", " ", "b", "e", "t", "t", "e", "r">>,
      EmptyStr,
      <<"t", "i", "e", " ", "i", "s", " ", "w", "r", "o", "n", "g", ",", " ", "B", " ",
         "i", "s", " ", "b", "e", "t", "t", "e", "r", " ", "t", "h", "a", "n", " ",
         "A", " ", "o", "v", "e", "r", "a", "l", "l">>,
      <<"B", " ", "x", " ", "x", " ", "x", " ", "x", " ", "x", " ", "x", " ", "x", " ",
         "x", " ", "x", " ", "x">>,
      <<"a", "+", " ", "a", "+", " ", "a", "+", " ", "b", "+">>,
      <<"a", "+", " ", "a", "+", " ", "b", "+">>,
      <<"b", "+", " ", "b", "+", " ", "b", "+", " ", "a", "+">>,
      <<"g", "i", "b", "b", "e", "r", "i", "s", "h", " ", "w", "i", "t", "h", " ", "n",
         "o", " ", "s", "i", "g", "n", "a", "l">>,
      <<"F", "i", "n", "a", "l", " ", "a", "n", "s", "w", "e", "r", ":", " ", "(", "B",
         ")">>,
      <<"F", "i", "n", "a", "l", " ", "a", "n", "s", "w", "e", "r", ":", " ", "B", ".">>,
      <<"p", "r", "e", "t", "t", "i", "e", "r", " ", "B", ".">>,
      <<"a", "+", " ", "a", "+", " ", "a", "+", " ", "s", "a", "m", "e">>,
      <<"A", ".", " ", "t", "h", "e", "n", " ", "B", "!">> }

EDIdle == [pc |-> "idle", response_text |-> EmptyStr, decision |-> None]

EDInit == ed = EDIdle

\* self._extract_decision(response_text) is called and returns
EDCall ==
    /\ ed.pc = "idle"
    /\ ui.pc = "idle"
    /\ app.pc = "idle"
    /\ ps_pc = "idle"
    /\ pcall.pc = "idle"
    /\ cw_pc = "idle"
    /\ sw_pc = "idle"
    /\ \A r \in Runs : jm[r].pc = "idle"
    /\ \E t \in DecisionTexts :
        ed' = [pc |-> "returned", response_text |-> t, decision |-> ExtractDecision(t)]
    /\ UNCHANGED <<cw_vars, sw_vars, jm, invocations, client_vars, ui, app>>

\* ------------------------------------------------- the comparison of the UI
\* the two candidates of run_comparison_safe
Keys == {"a", "b"}

\* settings["model_a"] and settings["model_b"], which the sidebar keeps distinct
ModelKey(key) == IF key = "a" THEN <<"model-a">> ELSE <<"model-b">>

\* the descriptor both candidates are streamed with in the model
UIConfig == [id |-> PrimaryId, together_fallback |-> SecondaryId]

\* a descriptor without a fallback model
UINoFallback == [id |-> PrimaryId, together_fallback |-> None]

\* the text of the failure chunk of a dropped connection: openrouter.py:251-256
StreamError == <<"Stream error: ", "<exception>">>

\* What stream_with_fallback yields to a worker, to its end, each an output
\* the coordinator produces from the provider streams:
\*   the primary's fragments and its terminal chunk, which carries the text;
\*   the primary rate limited: the notice, the secondary's fragment and its
\*     tagged terminal chunk;
\*   the primary dropped after a fragment: the fragment, the notice, the
\*     secondary's fragment and its tagged terminal chunk;
\*   the primary dropped after a fragment, no fallback model: the fragment and
\*     the failure chunk;
\*   the primary rate limited, the secondary raising an exception that has no
\*     message: the notice and the secondary's failure chunk.
CandidateStreams ==
    { << [ok |-> TRUE, text |-> <<"x">>], [ok |-> TRUE, text |-> <<"y">>],
         [ok |-> TRUE, final |-> TRUE, text |-> <<"x", "y">>, usage |-> None,
          elapsed |-> Elapsed] >>,
      << SwitchNotice(<<"Rate limited - please wait">>, UIConfig),
         [ok |-> TRUE, text |-> <<"x">>],
         TagSecondary([ok |-> TRUE, final |-> TRUE, usage |-> <<"{}">>,
                       elapsed |-> Elapsed],
                      <<"Rate limited - please wait">>, UIConfig) >>,
      << [ok |-> TRUE, text |-> <<"x">>],
         SwitchNotice(StreamError, UIConfig),
         [ok |-> TRUE, text |-> <<"y">>],
         TagSecondary([ok |-> TRUE, final |-> TRUE, usage |-> <<"{}">>,
                       elapsed |-> Elapsed], StreamError, UIConfig) >>,
      << [ok |-> TRUE, text |-> <<"x">>], NoFallbackChunk(StreamError) >>,
      << SwitchNotice(<<"Rate limited - please wait">>, UIConfig),
         [ok |-> FALSE, status |-> "exception", text |-> EmptyStr,
          elapsed |-> None] >> }

\* main.py:346-354: the update put for a chunk that has text
PartialUpdate(full_text, chunk) ==
    [text |-> full_text, partial |-> TRUE, error |-> None,
     fallback_used |-> Get(chunk, "fallback_used", FALSE),
     fallback_model |-> Get(chunk, "fallback_model", None)]

\* main.py:356-372: the update put for the terminal chunk
FinalUpdate(full_text, chunk) ==
    [text |-> full_text, partial |-> FALSE, error |-> None,
     usage |-> Get(chunk, "usage", EmptyDict),
     elapsed |-> Get(chunk, "elapsed", 0),
     fallback_used |-> Get(chunk, "fallback_used", FALSE),
     fallback_model |-> Get(chunk, "fallback_model", None)]

\* main.py:375-382: the update put for a failure chunk
ErrorUpdate(chunk) ==
    [text |-> None, partial |-> FALSE,
     error |-> Get(chunk, "text", <<"Unknown error">>)]

UIIdle ==
    [pc |-> "idle",
     \* per worker: the chunks of its stream, those the generator has yet to
     \* yield, the position of the worker ("loop", "final" between the two
     \* puts of a terminal chunk, "done"), full_text, and the updates it has
     \* put so far
     stream |-> [k \in Keys |-> << >>],
     gen |-> [k \in Keys |-> << >>],
     wpc |-> [k \in Keys |-> "done"],
     full_text |-> [k \in Keys |-> EmptyStr],
     produced |-> [k \in Keys |-> << >>],
     \* result_queue
     queue |-> << >>,
     \* the driver's dicts, the placeholders and progress bars it writes, the
     \* metrics in st.session_state, and the updates it has taken per candidate
     results |-> [k \in Keys |-> None],
     completed |-> [k \in Keys |-> FALSE],
     fallback_info |-> [k \in Keys |-> NoDict],
     shown |-> [k \in Keys |-> None],
     progress |-> [k \in Keys |-> "Waiting..."],
     remaining |-> Keys,
     session |-> [k \in Keys |-> NoDict],
     consumed |-> [k \in Keys |-> << >>]]

UIInit == ui = UIIdle

\* run_comparison_safe submits the two workers: main.py:394-436
UIStart ==
    /\ ui.pc = "idle"
    /\ cw_pc = "idle"
    /\ sw_pc = "idle"
    /\ \A r \in Runs : jm[r].pc = "idle"
    /\ ClientsIdle
    /\ \E sa \in CandidateStreams, sb \in CandidateStreams :
        ui' = [ui EXCEPT !.pc = "running",
                         !.stream = [k \in Keys |-> IF k = "a" THEN sa ELSE sb],
                         !.gen = [k \in Keys |-> IF k = "a" THEN sa ELSE sb],
                         !.wpc = [k \in Keys |-> "loop"]]
    /\ UNCHANGED <<cw_vars, sw_vars, jm, invocations, client_vars, ed, app>>

\* result_queue.put({result_key: data})
Put(st, key, data) ==
    [st EXCEPT !.queue = Append(@, [key |-> key, data |-> data]),
               !.produced[key] = Append(@, data)]

\* stream_response_safe takes the next chunk: main.py:335-382.  A terminal
\* chunk that has text makes two puts, and the second is a step of its own.
WorkerChunk(st, key, chunk) ==
    IF ~chunk.ok
    THEN [Put(st, key, ErrorUpdate(chunk)) EXCEPT !.wpc[key] = "done", !.gen[key] = Tail(@)]
    ELSE IF "text" \in DOMAIN chunk
    THEN LET full_text == st.full_text[key] \o chunk.text
             put == Put([st EXCEPT !.full_text[key] = full_text], key,
                        PartialUpdate(full_text, chunk))
         IN  IF Get(chunk, "final", FALSE)
             THEN [put EXCEPT !.wpc[key] = "final"]
             ELSE [put EXCEPT !.gen[key] = Tail(@)]
    ELSE IF Get(chunk, "final", FALSE)
    THEN [Put(st, key, FinalUpdate(st.full_text[key], chunk))
            EXCEPT !.wpc[key] = "done", !.gen[key] = Tail(@)]
    ELSE [st EXCEPT !.gen[key] = Tail(@)]

WorkerNext ==
    /\ ui.pc = "running"
    /\ \E key \in Keys :
        /\ ui.wpc[key] = "loop"
        /\ ui' = IF ui.gen[key] = << >>
                 THEN [ui EXCEPT !.wpc[key] = "done"]
                 ELSE WorkerChunk(ui, key, Head(ui.gen[key]))
    /\ UNCHANGED <<cw_vars, sw_vars, jm, invocations, client_vars, ed, app>>

\* the second put for a terminal chunk, and the return: main.py:356-373
WorkerPutFinal ==
    /\ ui.pc = "running"
    /\ \E key \in Keys :
        /\ ui.wpc[key] = "final"
        /\ ui' = [Put(ui, key, FinalUpdate(ui.full_text[key], Head(ui.gen[key])))
                    EXCEPT !.wpc[key] = "done", !.gen[key] = Tail(@)]
    /\ UNCHANGED <<cw_vars, sw_vars, jm, invocations, client_vars, ed, app>>

\* main.py:456-460
FallbackInfo(key, data) ==
    [used |-> TRUE, model |-> Get(data, "fallback_model", None),
     original_model |-> ModelKey(key)]

\* main.py:463-466: display_text
DisplayText(info, text) ==
    IF info # NoDict /\ info.used
    THEN <<"<arrows> **Fallback:** ">> \o info.model \o <<"\n\n---\n\n">> \o text
    ELSE text

\* main.py:484-492: the metrics stored for a finished candidate
Metrics(old, data) ==
    LET with_usage == IF "usage" \in DOMAIN data
                      THEN DictSet(IF old = NoDict THEN EmptyDict ELSE old,
                                   "usage", data.usage)
                      ELSE old
    IN  IF "elapsed" \in DOMAIN data
        THEN DictSet(IF with_usage = NoDict THEN EmptyDict ELSE with_usage,
                     "time", data.elapsed)
        ELSE with_usage

\* an update written to the dicts of both candidates
DriverApplyBoth(st, key, data) ==
    IF Truthy(data.error)
    THEN [st EXCEPT !.completed = [k \in Keys |-> TRUE],
                    !.results = [k \in Keys |-> None]]
    ELSE st

\* the body of the loop over update.items(): main.py:441-492
DriverApply(st, key, data) ==
    IF Truthy(data.error)
    THEN [st EXCEPT !.shown[key] = <<"<cross> **Error:** ">> \o data.error,
                    !.progress[key] = "Failed",
                    !.completed[key] = TRUE,
                    !.results[key] = None]
    ELSE IF data.text # None
    THEN LET info == IF Get(data, "fallback_used", FALSE)
                     THEN FallbackInfo(key, data) ELSE st.fallback_info[key]
         IN  IF data.partial
             THEN [st EXCEPT !.fallback_info[key] = info,
                             !.shown[key] = DisplayText(info, data.text),
                             !.progress[key] = "Generating..."]
             ELSE [st EXCEPT !.fallback_info[key] = info,
                             !.shown[key] = DisplayText(info, data.text),
                             !.progress[key] = "Complete",
                             !.completed[key] = TRUE,
                             !.results[key] = data.text,
                             !.session[key] = Metrics(@, data)]
    ELSE st

\* main.py:494-502: the overall progress
Overall(st) == [st EXCEPT !.remaining = { k \in Keys : ~st.completed[k] }]

\* the driver takes an update from the queue: main.py:437-502
DriverGet ==
    /\ ui.pc = "running"
    /\ \E k \in Keys : ~ui.completed[k]
    /\ ui.queue # << >>
    /\ LET update == Head(ui.queue)
           taken == [ui EXCEPT !.queue = Tail(@),
                               !.consumed[update.key] = Append(@, update.data)]
       IN  ui' = Overall(DriverApply(taken, update.key, update.data))
    /\ UNCHANGED <<cw_vars, sw_vars, jm, invocations, client_vars, ed, app>>

\* both candidates are completed: the loop ends and the results are returned,
\* main.py:437, 504-508
DriverExit ==
    /\ ui.pc = "running"
    /\ \A k \in Keys : ui.completed[k]
    /\ ui' = [ui EXCEPT !.pc = "done"]
    /\ UNCHANGED <<cw_vars, sw_vars, jm, invocations, client_vars, ed, app>>

NextComparison == UIStart \/ WorkerNext \/ WorkerPutFinal \/ DriverGet \/ DriverExit

\* ------------------------------------------------------- the configuration
\* the values a caller may give the validated fields of AppConfig
\* (temperature in hundredths)
RawConfigs ==
    [judge_repeats : {-1, 0, 1, 3, 5, 6},
     max_tokens : {0, 63, 64, 512, 4096, 4097},
     temperature : {-10, 0, 70, 200, 201},
     http_timeout : {0, 29, 30, 120, 600, 601}]

\* max(lo, v) alone
ClampNoUpper(lo, hi, v) == MaxOf(lo, v)

\* max(lo, min(v, hi)): models.py:48-60
Clamp(lo, hi, v) == MaxOf(lo, MinOf(v, hi))

\* the validators of AppConfig: models.py:46-60
ValidateConfig(raw) ==
    [judge_repeats |-> Clamp(1, 5, raw.judge_repeats),
     max_tokens |-> Clamp(64, 4096, raw.max_tokens),
     temperature |-> Clamp(0, 200, raw.temperature),
     http_timeout |-> Clamp(30, 600, raw.http_timeout)]

AppIdle == [pc |-> "idle", raw |-> NoDict, config |-> NoDict]

AppInit == app = AppIdle

\* AppConfig(...) is constructed with values for the validated fields
AppLoad ==
    /\ app.pc = "idle"
    /\ cw_pc = "idle"
    /\ sw_pc = "idle"
    /\ \A r \in Runs : jm[r].pc = "idle"
    /\ ps_pc = "idle" /\ pcall.pc = "idle" /\ ed.pc = "idle" /\ ui.pc = "idle"
    /\ \E raw \in RawConfigs :
        app' = [pc |-> "loaded", raw |-> raw, config |-> ValidateConfig(raw)]
    /\ UNCHANGED <<cw_vars, sw_vars, jm, invocations, client_vars, ed, ui>>

Init ==
    /\ CWInit
    /\ SWInit
    /\ JMInit
    /\ PSInit
    /\ PCInit
    /\ EDInit
    /\ UIInit
    /\ AppInit
    /\ invocations = << >>

vars == <<cw_vars, sw_vars, jm, invocations, client_vars, ed, ui, app>>

NextCall == CWStart \/ CWPrimaryEnds \/ CWSecondaryEnds

Next == NextCall \/ NextStream \/ NextJudge \/ NextProviderStream \/ NextProviderCall \/ EDCall
        \/ NextComparison \/ AppLoad

Spec == Init /\ [][Next]_vars

SpecPair == Init /\ [][NextPair]_vars

\* A comparison on its own, each worker thread and the driver's loop taking
\* its next step whenever it has one: the executor runs both workers, and
\* the loop polls the queue every 0.1 s (main.py:437-439).
SpecComparison ==
    /\ Init
    /\ [][NextComparison]_vars
    /\ WF_vars(WorkerNext)
    /\ WF_vars(WorkerPutFinal)
    /\ WF_vars(DriverGet)
    /\ WF_vars(DriverExit)

\* ============================================================ properties
\* the invocations of one client, in order
InvocationsOf(client) == SelectSeq(invocations, LAMBDA i : i.client = client)

\* ------------------------------------------------------- judging engine
Labels == {A, B, TIE}

Done(r) == jm[r].pc = "done"

\* how often a label occurs among the votes
CountOf(votes, label) == Cardinality({ i \in 1..Len(votes) : votes[i] = label })

\* the labels no other label has more votes than
TopLabels(votes) ==
    { l \in Labels : \A m \in Labels : CountOf(votes, m) <= CountOf(votes, l) }

\* the label with strictly the most votes, TIE if several share the most
Majority(votes) ==
    IF Cardinality(TopLabels(votes)) = 1
    THEN CHOOSE l \in TopLabels(votes) : TRUE
    ELSE TIE

\* what judge_majority returns for these votes
DecisionFor(votes) == MajorityResult(votes, << >>, << >>, Len(votes))["decision"]

\* C1: whenever at least one attempt yields a valid vote, judge_majority returns
\* ok=true with decision equal to the label among {A, B, TIE} of strictly highest
\* count; if two or more labels share the highest count the decision is TIE
\* (votes A,A,B,TIE,ERR give A; votes A,B give TIE; votes A,A,B,B,TIE give TIE).
C1_MajorityDecision ==
    /\ \A r \in Runs :
           (Done(r) /\ \E i \in 1..Len(jm[r].votes) : jm[r].votes[i] \in Labels) =>
               /\ jm[r].result["ok"] = TRUE
               /\ jm[r].result["decision"] = Majority(jm[r].votes)
               /\ jm[r].result["decision"] \in Labels
    /\ DecisionFor(<<A, A, B, TIE, ERR>>) = A
    /\ DecisionFor(<<A, B>>) = TIE
    /\ DecisionFor(<<A, A, B, B, TIE>>) = TIE

C1_Witness ==
    /\ Done(1)
    /\ jm[1].votes = <<A, ERR, B>>
    /\ jm[1].result["ok"]
    /\ jm[1].result["decision"] = TIE

\* C2: if every attempt yields ERR, judge_majority returns ok=false with no
\* decision; it never defaults to A, B or TIE.
C2_AllErrNoDecision ==
    \A r \in Runs :
        (Done(r) /\ \A i \in 1..Len(jm[r].votes) : jm[r].votes[i] = ERR) =>
            /\ jm[r].result["ok"] = FALSE
            /\ "decision" \notin DOMAIN jm[r].result
            /\ jm[r].result["reason"]["votes"] = jm[r].votes

C2_Witness ==
    /\ Done(1)
    /\ jm[1].repeats = 3
    /\ jm[1].votes = <<ERR, ERR, ERR>>
    /\ JudgeReachesClient(jm[1].setup)
    /\ jm[1].client_did[1].kind = "raise"
    /\ jm[1].client_did[2] = Return(ORSuccess([content |-> <<"x">>]))
    /\ jm[1].result["ok"] = FALSE

\* the votes that are not ERR, in order
NonErr(votes) == SelectSeq(votes, LAMBDA v : v # ERR)

\* C3: ERR votes never influence which label wins: two runs whose sequences of
\* non-ERR votes are equal and non-empty return the same decision, however many
\* ERR votes either contains.
C3_ErrVotesDoNotInfluence ==
    \A r1, r2 \in Runs :
        (/\ Done(r1)
         /\ Done(r2)
         /\ NonErr(jm[r1].votes) # << >>
         /\ NonErr(jm[r1].votes) = NonErr(jm[r2].votes)) =>
            /\ jm[r1].result["ok"]
            /\ jm[r2].result["ok"]
            /\ jm[r1].result["decision"] = jm[r2].result["decision"]

C3_Witness ==
    /\ Done(1)
    /\ Done(2)
    /\ jm[1].votes = <<ERR, A, ERR>>
    /\ jm[2].votes = <<A>>
    /\ jm[1].result["decision"] = A
    /\ jm[2].result["decision"] = A

\* C4: the judging engine never raises: when the client call returns a failure
\* result, returns a result with missing or null fields, or raises, judge_once
\* returns a dict with ok=false and a reason; judge_majority always returns a
\* result, and a failure in attempt i does not prevent attempts i+1..repeats.
C4_NeverRaises ==
    \A r \in Runs :
        /\ Len(jm[r].once_did) = jm[r].attempt
        /\ \A i \in 1..Len(jm[r].once_did) :
               LET once == jm[r].once_did[i] IN
               /\ once.kind = "return"
               /\ "ok" \in DOMAIN once.value
               /\ (jm[r].client_did[i] \in JudgeClientFaults \cup {NotCalled}) =>
                      /\ once.value["ok"] = FALSE
                      /\ "reason" \in DOMAIN once.value
                      /\ once.value["reason"] # EmptyStr
        /\ jm[r].pc = "loop" => jm[r].attempt < jm[r].repeats
        /\ Done(r) =>
               /\ jm[r].attempt = jm[r].repeats
               /\ Len(jm[r].votes) = jm[r].repeats
               /\ "ok" \in DOMAIN jm[r].result

C4_Witness ==
    /\ Done(1)
    /\ jm[1].votes = <<ERR, A, ERR>>
    /\ jm[1].client_did[1].kind = "raise"
    /\ jm[1].client_did[2] = Return(ORSuccess([content |-> <<"A">>]))
    /\ jm[1].client_did[3] = Return(ORSuccess([content |-> None]))
    /\ jm[1].result["ok"]
    /\ jm[1].result["decision"] = A

\* judge_once ended with ok=false because the call to the judge model failed
CallFailed(once) ==
    /\ once.kind = "return"
    /\ ~once.value["ok"]
    /\ \/ Slice(once.value["reason"], 1, 1) = <<"API call failed: ">>
       \/ Slice(once.value["reason"], 1, 1) = <<"Exception during judgment: ">>

\* C5: judge_once invokes the judge model through the fallback coordinator: the
\* secondary provider is called when the primary judge call fails and the judge
\* model's descriptor declares a secondary, and judge_once reports ok=false for
\* a failed call only when both have failed.
C5_JudgeCallsThroughFallback ==
    \A i \in 1..Len(jm[1].once_did) :
        (/\ Truthy(jm[1].setup.model.together_fallback)
         /\ CallFailed(jm[1].once_did[i])) =>
            /\ jm[1].client_did[i] # NotCalled
            /\ InvocationsOf("together") # << >>

FallbackKeys ==
    {"fallback_used", "fallback_model", "original_error",
     "fallback_attempted", "fallback_error"}

\* call_with_fallback has returned after a failed primary call, a secondary declared
CWFellBack ==
    /\ cw_pc = "returned"
    /\ ~result["ok"]
    /\ Truthy(cw_config.together_fallback)

\* C6: when the primary call fails and the descriptor declares a secondary, the
\* secondary client is called exactly once with the same prompt and parameters;
\* if it succeeds the returned result has ok=true, fallback_used=true,
\* fallback_model = the configured secondary id and original_error = the
\* primary's failure message.
C6_SecondaryCalledOnceAndTagged ==
    CWFellBack =>
        /\ InvocationsOf("together") =
               << Invocation("together", "call", cw_config.together_fallback, cw_args) >>
        /\ InvocationsOf("openrouter")[1].args = cw_args
        /\ together_result["ok"] =>
               /\ cw_returned["ok"] = TRUE
               /\ Get(cw_returned, "fallback_used", FALSE) = TRUE
               /\ Get(cw_returned, "fallback_model", None) = cw_config.together_fallback
               /\ Get(cw_returned, "original_error", None) = result["text"]
               /\ cw_returned["text"] = together_result["text"]

C6_Witness ==
    /\ CWFellBack
    /\ together_result["ok"]
    /\ result["status"] = "timeout"
    /\ cw_returned["original_error"] = <<"Request timed out after ", "<timeout>", "s">>

\* C7: when both calls fail, the returned result is the primary's failure
\* (ok=false, the primary's status and message) with fallback_attempted=true and
\* fallback_error = the secondary's failure message added; fallback_used is not set.
C7_BothFailedKeepsBothErrors ==
    (CWFellBack /\ ~together_result["ok"]) =>
        /\ cw_returned["ok"] = FALSE
        /\ \A k \in DOMAIN result : cw_returned[k] = result[k]
        /\ DOMAIN cw_returned = DOMAIN result \cup {"fallback_attempted", "fallback_error"}
        /\ cw_returned["fallback_attempted"] = TRUE
        /\ cw_returned["fallback_error"] = together_result["text"]
        /\ "fallback_used" \notin DOMAIN cw_returned

C7_Witness ==
    /\ CWFellBack
    /\ ~together_result["ok"]
    /\ result["status"] = "429"
    /\ together_result["status"] = "401"
    /\ cw_returned["fallback_error"] =
           <<"Authentication failed - check your Together AI API key">>

\* C8: if the primary call succeeds, or fails with no secondary declared, the
\* secondary client is never invoked and the primary's result is returned
\* unchanged, with none of the five fallback fields set.
C8_NoFallbackPassThrough ==
    (/\ cw_pc = "returned"
     /\ (result["ok"] \/ ~Truthy(cw_config.together_fallback))) =>
        /\ InvocationsOf("together") = << >>
        /\ cw_returned = result
        /\ DOMAIN cw_returned \cap FallbackKeys = {}

C8_Witness ==
    /\ cw_pc = "returned"
    /\ result["ok"]
    /\ cw_config.together_fallback = SecondaryId
    /\ cw_returned = result

\* the chunk is one a stream yields as its terminal chunk
IsFinal(chunk) == Get(chunk, "final", FALSE) = TRUE

\* a returned result or yielded chunk obeys the provenance rule
ProvenanceOk(d) ==
    Get(d, "fallback_used", FALSE) = TRUE =>
        /\ Get(d, "fallback_model", None) # None
        /\ Get(d, "original_error", None) # None

\* C9: every result returned by call_with_fallback and every chunk yielded by
\* stream_with_fallback satisfies: fallback_used=true implies fallback_model is
\* non-null and original_error is non-null.
C9_FallbackUsedHasProvenance ==
    /\ cw_pc = "returned" => ProvenanceOk(cw_returned)
    /\ \A i \in 1..Len(out) : ProvenanceOk(out[i])

C9_Witness ==
    /\ sw_pc = "done"
    /\ Len(out) > 0
    /\ Get(out[Len(out)], "fallback_used", FALSE) = TRUE
    /\ out[Len(out)]["original_error"] = <<"'utf-8' codec can't decode byte">>
    /\ out[Len(out)]["fallback_model"] = SecondaryId

\* the primary chunks that were ok, in arrival order
PrimaryForwarded == SelectSeq(primary_yields, LAMBDA c : c["ok"])

\* stream_with_fallback switched to a declared secondary
SWSwitched ==
    /\ sw_pc \in {"secondary", "done"}
    /\ needs_fallback
    /\ Truthy(sw_config.together_fallback)

\* C10: with a secondary declared, primary chunks are forwarded in arrival order;
\* when the primary yields a failure chunk (or raises) before any terminal chunk,
\* that failure chunk is not forwarded, exactly one synthetic ok chunk announcing
\* the switch follows the forwarded primary chunks and precedes every secondary
\* chunk, then the secondary's chunks are forwarded in order, its terminal chunk
\* carrying fallback_used=true, fallback_model and original_error.
C10_SwitchOrder ==
    /\ (sw_pc # "idle" /\ ~needs_fallback) => out = primary_yields
    /\ SWSwitched =>
        LET np == Len(PrimaryForwarded) IN
        /\ Len(out) = np + 1 + Len(secondary_yields)
        /\ \A i \in 1..np : out[i] = primary_yields[i] /\ ~IsFinal(out[i])
        /\ \A i \in 1..Len(primary_yields) :
               ~primary_yields[i]["ok"] =>
                   /\ i = Len(primary_yields)
                   /\ original_error = primary_yields[i]["text"]
        /\ out[np + 1]["ok"] = TRUE
        /\ DOMAIN out[np + 1] = {"ok", "text"}
        /\ out[np + 1]["text"] =
               <<"\n\n[Primary model failed: ">> \o original_error
               \o <<". Switching to fallback: ">> \o sw_config.together_fallback
               \o <<"]\n\n">>
        /\ \A c \in {primary_yields[i] : i \in 1..Len(primary_yields)}
                    \cup {secondary_yields[i] : i \in 1..Len(secondary_yields)} :
               c # out[np + 1]
        /\ \A j \in 1..Len(secondary_yields) :
               LET c == secondary_yields[j]
                   o == out[np + 1 + j] IN
               /\ \A k \in DOMAIN c : o[k] = c[k]
               /\ IF IsFinal(c)
                  THEN /\ DOMAIN o = DOMAIN c
                              \cup {"fallback_used", "fallback_model", "original_error"}
                       /\ o["fallback_used"] = TRUE
                       /\ o["fallback_model"] = sw_config.together_fallback
                       /\ o["original_error"] = original_error
                  ELSE o = c

C10_Witness ==
    /\ SWSwitched
    /\ sw_pc = "done"
    /\ Len(PrimaryForwarded) = 2
    /\ Len(primary_yields) = 3
    /\ Len(secondary_yields) = 3
    /\ IsFinal(secondary_yields[3])
    /\ out[Len(out)]["fallback_used"] = TRUE
    /\ out[1]["text"] # out[2]["text"]

\* the primary stream failed and the descriptor declares no secondary
SWFailedNoSecondary ==
    /\ sw_pc # "idle"
    /\ needs_fallback
    /\ ~Truthy(sw_config.together_fallback)

\* C11: with no secondary declared, when the primary stream fails before a
\* terminal chunk, the output ends with exactly one failure chunk (ok=false)
\* stating that no fallback is available, and nothing is emitted after it.
C11_NoSecondaryOneFailureChunk ==
    SWFailedNoSecondary =>
        /\ sw_pc = "done"
        /\ Len(out) = Len(PrimaryForwarded) + 1
        /\ \A i \in 1..Len(PrimaryForwarded) :
               out[i] = PrimaryForwarded[i] /\ out[i]["ok"] /\ ~IsFinal(out[i])
        /\ out[Len(out)]["ok"] = FALSE
        /\ out[Len(out)]["status"] = "no_fallback"
        /\ out[Len(out)]["text"] =
               <<"Primary model failed and no fallback available: ">> \o original_error
        /\ InvocationsOf("together") = << >>

C11_Witness ==
    /\ SWFailedNoSecondary
    /\ sw_config.together_fallback = None
    /\ Len(out) = 3
    /\ out[1]["ok"]
    /\ out[3]["status"] = "no_fallback"
    /\ original_error = <<"Stream error: ", "<exception>">>

\* ------------------------------------------------------ provider streams
\* a terminal chunk is the last of the chunks
FinalIsLast(chunks) == \A i \in 1..Len(chunks) : IsFinal(chunks[i]) => i = Len(chunks)

\* C12: for every provider client stream (OpenRouter, Together, simulated
\* HuggingFace) and every sequence of endpoint outcomes including retries, at
\* most one chunk with final=true is produced and, when produced, it is the
\* last element of the sequence.
C12_OneFinalChunkLast ==
    /\ FinalIsLast(ps_out)
    /\ FinalIsLast(primary_yields)
    /\ FinalIsLast(secondary_yields)
    /\ (ps_pc = "ended" /\ ps_out # << >> /\ ps_out[Len(ps_out)]["ok"]) =>
           IsFinal(ps_out[Len(ps_out)])

C12_Witness ==
    /\ ps_pc = "ended"
    /\ ps_provider = "huggingface"
    /\ Len(ps_out) = 5
    /\ ps_out[3]["text"] = <<"c", " ", "d", " ", "e", " ">>
    /\ ps_out[4]["text"] = <<"f", " ", "g", " ">>
    /\ IsFinal(ps_out[5])

\* the statuses of an error response
ErrorStatuses == {"429", "503", "502"} \cup OtherStatuses

\* C13: for a provider client stream, an error response (4xx/5xx, including
\* 429) received when the request is opened makes the stream yield exactly one
\* failure chunk and then end: after a chunk with ok=false no further chunk is
\* yielded, in particular no text chunk and no terminal chunk.
C13_FailureChunkEndsStream ==
    \A i \in 1..Len(ps_out) :
        (~ps_out[i]["ok"] /\ ps_out[i]["status"] \in ErrorStatuses) =>
            i = Len(ps_out)

\* the concatenation of the texts of the chunks
RECURSIVE ConcatTexts(_)
ConcatTexts(chunks) ==
    IF chunks = << >> THEN << >>
    ELSE chunks[1]["text"] \o ConcatTexts(Tail(chunks))

\* the text chunks: ok and not terminal
TextChunks(chunks) == SelectSeq(chunks, LAMBDA c : c["ok"] /\ ~IsFinal(c))

\* C14: for an OpenRouter stream that ends with a terminal chunk, the
\* concatenation in emission order of the texts of the non-terminal chunks the
\* stream yielded equals the text carried by the terminal chunk, for every
\* sequence of endpoint outcomes (including a connection error after some data
\* lines followed by a retry).
C14_TerminalTextIsConcatenation ==
    (/\ ps_provider = "openrouter"
     /\ ps_out # << >>
     /\ IsFinal(ps_out[Len(ps_out)])) =>
        ConcatTexts(TextChunks(ps_out)) = ps_out[Len(ps_out)]["text"]

\* the responses a call has had so far, in order
ResponsesOf(trace) ==
    LET reqs == SelectSeq(trace, LAMBDA e : e.op = "request")
    IN  [i \in 1..Len(reqs) |-> reqs[i].response]

\* the number of requests among the first i entries of a trace
RequestsUpTo(trace, i) ==
    Cardinality({ j \in 1..i : trace[j].op = "request" })

\* a rate-limit response: status 429, or the SDK's exception for it
IsRateLimit(response) == HasPiece(response, {"429", "rate limit"})

\* C15: in every provider call, a 429 response on any attempt ends the call at
\* once with the rate-limit failure: no request and no backoff sleep follows it.
C15_RateLimitReturnsAtOnce ==
    \A i \in 1..Len(pcall.trace) :
        (pcall.trace[i].op = "request" /\ IsRateLimit(pcall.trace[i].response))
        => /\ i = Len(pcall.trace)
           /\ pcall.pc = "returned"
           /\ ~pcall.result.ok
           /\ pcall.result.status = "429"

\* the responses that are a status, a timeout or a network exception
StatusResponses ==
    { <<r>> : r \in {"429", "502", "503", "404", "401", "request_exception",
                     "timeout"} \cup OtherStatuses }
    \cup TGCallErrors

\* what call returns is a CallResult: a dict with ok and text
IsCallResult(d) == {"ok", "text"} \subseteq DOMAIN d /\ d.ok \in BOOLEAN

\* C16: for every retry budget of one or more and every sequence of statuses,
\* timeouts and network exceptions, a provider call makes at most `retries`
\* requests and then returns a CallResult; every pass through the loop either
\* ends the call or uses up one attempt of the budget, so the loop terminates.
C16_AtMostRetriesRequests ==
    /\ [](pcall.retries >= 1 =>
            /\ Len(ResponsesOf(pcall.trace)) <= pcall.retries
            /\ pcall.pc = "loop" =>
                  /\ pcall.attempt = Len(ResponsesOf(pcall.trace)) + 1
                  /\ ENABLED (PCAttempt \/ PCExhausted)
            /\ pcall.pc = "returned" => IsCallResult(pcall.result)
            /\ pcall.pc = "raised" =>
                  ResponsesOf(pcall.trace)[pcall.attempt] \notin StatusResponses)
    /\ [][pcall.pc = "loop" =>
            \/ pcall'.pc \in {"returned", "raised"}
            \/ pcall'.pc = "loop" /\ pcall'.attempt = pcall.attempt + 1]_vars

\* a call that used its whole budget of two attempts and returned
C16_Witness ==
    /\ pcall.pc = "returned"
    /\ pcall.retries = 2
    /\ Len(ResponsesOf(pcall.trace)) = 2
    /\ ~pcall.result.ok

\* a server error (any status from 500 up) or a transient network failure
IsTransient(response) ==
    HasPiece(response, {"500", "502", "503", "504", "timeout",
                        "request_exception", "connection", "network"})

\* C17: while an attempt of the budget remains, a provider call that gets a
\* status of 500 or above, a timeout or a network exception sleeps and tries
\* again; such a failure is returned only by the last attempt.
C17_ServerErrorsRetried ==
    \A i \in 1..Len(pcall.trace) :
        (/\ pcall.trace[i].op = "request"
         /\ IsTransient(pcall.trace[i].response)
         /\ RequestsUpTo(pcall.trace, i) < pcall.retries)
        => /\ i < Len(pcall.trace)
           /\ pcall.trace[i + 1].op = "sleep"

\* the bodies of a 200 response that are not of the expected shape
MalformedBodies ==
    { <<b>> : b \in (ORBodies \cup HFBodies) \ {"reasoning_only", "content", "list", "dict"} }
    \cup { <<"no_choices">>, <<"content_null">> }

\* the statuses of a failure to parse the response
ParseErrorStatuses == {"json_error", "no_choices", "parse_error"}

\* the HTTP statuses that no client retries
NonRetryable == { <<s>> : s \in {"400", "401", "404"} }

\* C18: a provider call never raises: a non-retryable status other than 2xx
\* comes back as a failure carrying that status, and a body that is not JSON
\* or not of the expected shape as a failure with a parse-error status.
C18_CallIsTotal ==
    /\ pcall.pc # "raised"
    /\ pcall.pc = "returned" /\ pcall.trace # << >> =>
        LET last == pcall.trace[Len(pcall.trace)].response
        IN  /\ last \in NonRetryable =>
                ~pcall.result.ok /\ pcall.result.status = last[1]
            /\ last \in MalformedBodies =>
                ~pcall.result.ok /\ pcall.result.status \in ParseErrorStatuses

\* max_tokens and top_p as a request carries them
SentMaxTokens(provider, body) ==
    IF provider = "huggingface" THEN body.parameters.max_new_tokens
    ELSE body.max_tokens

SentTopP(provider, body) ==
    IF provider = "huggingface" THEN body.parameters.top_p ELSE body.top_p

\* C19: whatever max_tokens, temperature and top_p the caller supplies, every
\* request a provider client sends carries a top_p in (0, 1] and a positive
\* max_tokens.
C19_RequestParametersClamped ==
    \A i \in 1..Len(pcall.trace) :
        pcall.trace[i].op = "request" =>
            /\ SentTopP(pcall.provider, pcall.trace[i].body) \in 1..100
            /\ SentMaxTokens(pcall.provider, pcall.trace[i].body) >= 1

\* the last line of s that is not blank, stripped; the empty string if none
LastNonBlankLine(s) ==
    LET lines == SplitOn(s, "\n")
        full == { i \in 1..Len(lines) : ~IsBlank(lines[i]) }
    IN  IF full = {} THEN EmptyStr
        ELSE Strip(lines[CHOOSE i \in full : \A j \in full : j <= i])

\* C20: when the last non-blank line of the upper-cased response text is
\* exactly A, B or TIE, _extract_decision returns that label, whatever the
\* text before that line says.
C20_LastLineRule ==
    ed.pc = "returned" =>
        LET last == LastNonBlankLine(UpperStr(ed.response_text))
        IN  last \in {A, B, TIE} => ed.decision = last

\* "TIE\nB\nA": the last line is A after a TIE and a B, and A is returned
C20_Witness ==
    /\ ed.pc = "returned"
    /\ ed.response_text = <<"T", "I", "E", "\n", "B", "\n", "A">>
    /\ ed.decision = A

\* response_text.strip().upper(), the text the steps of the extractor look at
CleanedText == UpperStr(Strip(ed.response_text))

\* the positions, among the final WindowWords whitespace-separated tokens, of
\* the tokens that are exactly a label
WindowHits(tokens) ==
    { i \in 1..Len(tokens) :
        i > Len(tokens) - WindowWords /\ tokens[i] \in {A, B, TIE} }

\* the number of standalone occurrences of the letter c in s
Standalone(s, c) ==
    Cardinality({ i \in 1..Len(s) :
        /\ s[i] = c
        /\ (i = 1 \/ s[i - 1] \notin WordChars)
        /\ (i = Len(s) \/ s[i + 1] \notin WordChars) })

\* C21: when the last non-blank line is not a label, _extract_decision returns
\* the last of the final ten tokens of the upper-cased text that is exactly
\* A, B or TIE, if there is one, whatever the later steps (TIE substring,
\* patterns, tie keywords, counting) would say.
C21_WindowRule ==
    (ed.pc = "returned"
     /\ LastNonBlankLine(UpperStr(ed.response_text)) \notin {A, B, TIE}) =>
        LET tokens == SplitWords(UpperStr(ed.response_text))
            hits == WindowHits(tokens)
        IN  hits # {} => ed.decision = tokens[CHOOSE i \in hits : \A j \in hits : j <= i]

\* a text whose last line is no label, which contains TIE, and whose last
\* label among the final tokens is A after a B: A is returned
C21_Witness ==
    /\ ed.pc = "returned"
    /\ LastNonBlankLine(UpperStr(ed.response_text)) \notin {A, B, TIE}
    /\ Contains(CleanedText, TIE)
    /\ LET tokens == SplitWords(CleanedText)
       IN  \E i, j \in WindowHits(tokens) : i < j /\ tokens[i] = B /\ tokens[j] = A
    /\ ed.decision = A

\* no step before the counting decides on the cleaned text s
EarlierUndecided(s) ==
    /\ WindowHits(SplitWords(s)) = {}
    /\ ~Contains(s, TIE)
    /\ PatternDecision(s) = None
    /\ \A kw \in TieKeywords : ~Contains(s, kw)

\* C22: when no earlier step decides, _extract_decision returns A if the
\* standalone As outnumber the standalone Bs by more than one, B in the
\* symmetric case, and None otherwise; the empty text gives None.
C22_CountingFallback ==
    (ed.pc = "returned" /\ EarlierUndecided(CleanedText)) =>
        LET a_count == Standalone(CleanedText, "A")
            b_count == Standalone(CleanedText, "B")
        IN  ed.decision = IF a_count > b_count + 1 THEN A
                          ELSE IF b_count > a_count + 1 THEN B
                          ELSE None

\* three standalone As against one B, nothing else deciding: A is returned
C22_Witness ==
    /\ ed.pc = "returned"
    /\ EarlierUndecided(CleanedText)
    /\ Standalone(CleanedText, "A") = 3
    /\ Standalone(CleanedText, "B") = 1
    /\ ed.decision = A

\* the verdict phrasing of the pattern set, as it reads in upper-cased text: the
\* positions of the standalone A or B that follows FINAL, ANSWER, DECISION,
\* CONCLUSION or CHOICE on the same line, that is followed by IS, WINS or
\* BETTER, or that follows CANDIDATE
PhraseLabels(s) ==
    { j \in 1..Len(s) :
        /\ StandaloneAB(s, j)
        /\ \/ \E i \in 1..(j - 1) :
                /\ LiteralAt(s, i, { UpperStr(w) : w \in VerdictWords })
                /\ \A m \in i..j : s[m] # "\n"
           \/ LiteralAt(s, SkipSpace(s, j + 1), { UpperStr(w) : w \in IsWinsBetter })
           \/ \E i \in 1..(j - 1) :
                /\ LiteralAt(s, i, { UpperStr(<<"c", "a", "n", "d", "i", "d", "a", "t", "e">>) })
                /\ i + 9 < j
                /\ SkipSpace(s, i + 9) = j }

\* C28: when the last-line, window and TIE-substring steps do not decide and
\* the text has verdict phrasing of the pattern set, _extract_decision returns
\* the label of the phrase that comes latest in the text.
C28_PatternStep ==
    (/\ ed.pc = "returned"
     /\ WindowHits(SplitWords(CleanedText)) = {}
     /\ ~Contains(CleanedText, TIE)
     /\ PhraseLabels(CleanedText) # {}) =>
        LET labels == PhraseLabels(CleanedText)
        IN  ed.decision = << CleanedText[CHOOSE j \in labels : \A k \in labels : k <= j] >>

\* C29: when the last-line and window steps do not decide, a text that has
\* the substring TIE gives TIE whatever the A/B patterns match; and when no
\* pattern matches either, a text that has a tie synonym gives TIE, before
\* any counting.
C29_TieSubstringAndSynonyms ==
    (/\ ed.pc = "returned"
     /\ ed.response_text # EmptyStr
     /\ WindowHits(SplitWords(CleanedText)) = {}) =>
        /\ Contains(CleanedText, TIE) => ed.decision = TIE
        /\ (/\ ~Contains(CleanedText, TIE)
            /\ PatternDecision(CleanedText) = None
            /\ \E kw \in TieKeywords : Contains(CleanedText, kw)) => ed.decision = TIE

\* a text with the substring TIE inside a word and a pattern match for B: TIE
C29_Witness ==
    /\ ed.pc = "returned"
    /\ WindowHits(SplitWords(CleanedText)) = {}
    /\ Contains(CleanedText, TIE)
    /\ PatternDecision(CleanedText) = B
    /\ ed.decision = TIE

\* the attempts of the run of judge_majority in which the client was called
\* and returned a dict
Answered ==
    { i \in 1..Len(jm[1].client_did) : jm[1].client_did[i].kind = "return" }

\* the texts judge_once can recover from the dict a call returned: its text,
\* and the content and reasoning of the first choice of its raw body
RecoverableTexts(res) ==
    LET raw == Get(res, "raw", EmptyDict)
        message == IF raw # EmptyDict /\ "choices" \in DOMAIN raw /\ raw["choices"] # << >>
                   THEN Get(raw["choices"][1], "message", EmptyDict)
                   ELSE EmptyDict
    IN { Get(res, "text", EmptyStr), Get(message, "content", EmptyStr),
         Get(message, "reasoning", EmptyStr) }

\* the call succeeded and every text that can be recovered from it is blank
EmptyCall(res) ==
    Get(res, "ok", FALSE) /\ \A t \in RecoverableTexts(res) : t # None /\ IsBlank(t)

\* the result of judge_once is one that comes after the decision extractor
FromExtractor(once) ==
    \/ once.value.ok
    \/ once.value.reason[1] = "Could not parse decision from response: '"

\* C23: judge_once hands neither the result of a failed call nor a blank
\* response text to the decision extractor: a failed call gives ok=false with
\* the call-failed reason at once, and a call whose text is blank even after
\* the reasoning field has been looked at gives ok=false with the reason
\* "Empty response from judge model", which is not the could-not-parse reason.
C23_NoFailureNorBlankToExtractor ==
    \A i \in Answered :
        LET res == jm[1].client_did[i].value
            once == jm[1].once_did[i]
        IN  /\ once.kind = "return"
            /\ ~Get(res, "ok", FALSE) =>
                  /\ ~once.value.ok
                  /\ once.value.reason[1] = "API call failed: "
                  /\ once.value.raw = res
            /\ EmptyCall(res) =>
                  /\ ~once.value.ok
                  /\ once.value.reason = <<"Empty response from judge model">>
            /\ FromExtractor(once) =>
                  /\ Get(res, "ok", FALSE)
                  /\ \E t \in RecoverableTexts(res) : t # None /\ ~IsBlank(t)

\* a call that succeeded with a blank content and no reasoning: judge_once
\* answered "Empty response from judge model"
C23_Witness ==
    \E i \in Answered :
        /\ EmptyCall(jm[1].client_did[i].value)
        /\ "text" \in DOMAIN jm[1].client_did[i].value
        /\ jm[1].client_did[i].value.text = <<" ">>
        /\ jm[1].once_did[i].value.reason = <<"Empty response from judge model">>

\* the attempts in which the call returned a failure that has a message
FailedCalls ==
    { i \in Answered :
        /\ ~Get(jm[1].client_did[i].value, "ok", FALSE)
        /\ "text" \in DOMAIN jm[1].client_did[i].value }

\* C25: when the provider call of the judge fails, the reason judge_once
\* returns carries the failure message of that call, so two failures of
\* different classifiers give two different reasons.
C25_ReasonCarriesCallFailure ==
    /\ \A i \in FailedCalls :
          jm[1].once_did[i].value.reason
              = <<"API call failed: ">> \o jm[1].client_did[i].value.text
    /\ \A i, j \in FailedCalls :
          jm[1].client_did[i].value.status # jm[1].client_did[j].value.status
          => jm[1].once_did[i].value.reason # jm[1].once_did[j].value.reason

\* C26: in every ok result of judge_majority the counts have exactly the keys
\* A, B, TIE and ERR, they add up to repeats, which is also the number of
\* votes and total_attempts, and valid_votes is repeats less the ERR count.
C26_CountsAddUp ==
    (jm[1].pc = "done" /\ jm[1].result.ok) =>
        LET r == jm[1].result
        IN  /\ DOMAIN r.counts = {A, B, TIE, ERR}
            /\ r.counts[A] + r.counts[B] + r.counts[TIE] + r.counts[ERR] = jm[1].repeats
            /\ Len(r.votes) = jm[1].repeats
            /\ r.total_attempts = jm[1].repeats
            /\ r.valid_votes = jm[1].repeats - r.counts[ERR]

\* an ok result of three attempts, one of them an ERR vote
C26_Witness ==
    /\ jm[1].pc = "done"
    /\ jm[1].result.ok
    /\ jm[1].repeats = 3
    /\ jm[1].result.counts[ERR] = 1
    /\ jm[1].result.counts[A] = 1
    /\ jm[1].result.counts[B] = 1

\* the attempts, in order, whose vote is ERR
ErrAttempts(votes) ==
    LET at == { i \in 1..Len(votes) : votes[i] = ERR }
    IN  [k \in 1..Cardinality(at) |->
            CHOOSE i \in at : Cardinality({ j \in at : j <= i }) = k]

\* C27: in judge_majority the i-th vote is the outcome of the i-th call of
\* judge_once, and the errors list has one entry for each ERR vote, in the
\* order of the attempts, each beginning "Attempt n" with n the 1-based
\* number of the attempt that failed.
C27_VotesAndErrorsInAttemptOrder ==
    LET run == jm[1]
        failed == ErrAttempts(run.votes)
    IN  /\ Len(run.votes) = Len(run.once_did)
        /\ \A i \in 1..Len(run.votes) :
              run.votes[i] = IF run.once_did[i].value.ok
                             THEN run.once_did[i].value.decision ELSE ERR
        /\ Len(run.errors) = Len(failed)
        /\ \A k \in 1..Len(failed) :
              /\ run.errors[k][1] = "Attempt "
              /\ run.errors[k][2] = Digits[failed[k] + 1]
              /\ run.errors[k][3] = ": "
              /\ SubSeq(run.errors[k], 4, Len(run.errors[k]))
                     = run.once_did[failed[k]].value.reason

\* three attempts of which the first and the third failed
C27_Witness ==
    /\ jm[1].votes = <<ERR, B, ERR>>
    /\ Len(jm[1].errors) = 2
    /\ jm[1].errors[1][2] = "1"
    /\ jm[1].errors[2][2] = "3"

\* the updates the driver has taken for a candidate are the first ones its
\* worker put, in the order of the puts
ConsumedInOrder(key) ==
    /\ Len(ui.consumed[key]) <= Len(ui.produced[key])
    /\ ui.consumed[key] = SubSeq(ui.produced[key], 1, Len(ui.consumed[key]))

\* a step in which no update of a candidate is taken leaves the candidate's
\* result, completion flag and fallback info as they are
OnlyOwnSlots(key) ==
    ui'.consumed[key] = ui.consumed[key] =>
        /\ ui'.results[key] = ui.results[key]
        /\ ui'.completed[key] = ui.completed[key]
        /\ ui'.fallback_info[key] = ui.fallback_info[key]

\* C24: under every interleaving of the two workers and the driver, an update
\* of one candidate changes the result, completion flag and fallback info of
\* that candidate only, and the updates of a candidate are consumed in the
\* order its worker produced them.
C24_UpdatesStayWithTheirCandidate ==
    /\ [](\A key \in Keys : ConsumedInOrder(key))
    /\ [][\A key \in Keys : OnlyOwnSlots(key)]_vars

\* candidate a fell back and is completed with its text and fallback info,
\* while candidate b, some of whose updates were taken in between, still has an
\* update waiting and neither result nor fallback info
C24_Witness ==
    /\ ui.pc = "running"
    /\ ui.completed["a"]
    /\ ui.results["a"] # None
    /\ ui.fallback_info["a"] # NoDict
    /\ ui.consumed["b"] # << >>
    /\ ui.queue # << >>
    /\ ~ui.completed["b"]
    /\ ui.results["b"] = None
    /\ ui.fallback_info["b"] = NoDict

\* C30: the terminal chunk of every provider client stream has final = true
\* and a usage field holding an object, never null and never absent.
C30_TerminalChunkHasUsageObject ==
    \A i \in 1..Len(ps_out) :
        (ps_out[i].ok /\ Get(ps_out[i], "final", FALSE)) =>
            /\ "usage" \in DOMAIN ps_out[i]
            /\ ps_out[i].usage # None

\* the words of the chunks, in the order of the chunks
RECURSIVE ChunkWords(_)
ChunkWords(chunks) ==
    IF chunks = << >> THEN << >>
    ELSE SplitWords(chunks[1]["text"]) \o ChunkWords(Tail(chunks))

\* the simulated stream is past a successful call that returned text
HFChunking ==
    /\ ps_provider = "huggingface"
    /\ ps_pc \in {"running", "ended"}
    /\ ps_gen.phase # "call"
    /\ \A i \in 1..Len(ps_out) : ps_out[i]["ok"]

\* C31: the simulated stream of HuggingFace, after a successful call with
\* non-empty text of n words, yields at most n non-terminal chunks of 1 to 3
\* words each, whose words in emission order are the n words of the result,
\* each once and in order, followed by exactly one terminal chunk, the last.
C31_SimulatedChunking ==
    HFChunking =>
        LET texts == TextChunks(ps_out)
            n == Len(ps_gen.words)
            over == ps_gen.phase \in {"stop", "ended"}
        IN  /\ Len(texts) <= n
            /\ \A i \in 1..Len(texts) : Len(SplitWords(texts[i]["text"])) \in 1..3
            /\ ChunkWords(texts) = SubSeq(ps_gen.words, 1, ps_gen.current_pos)
            /\ FinalIsLast(ps_out)
            /\ over => /\ ps_gen.current_pos = n
                       /\ Len(ps_out) = Len(texts) + 1
                       /\ IsFinal(ps_out[Len(ps_out)])
            /\ ~over => Len(ps_out) = Len(texts)

\* the text of seven words has been streamed in four chunks (of 1, 1, 3 and 2
\* words) and the terminal one
C31_Witness ==
    /\ HFChunking
    /\ ps_pc = "ended"
    /\ Len(ps_gen.words) = 7
    /\ Len(ps_out) = 5
    /\ IsFinal(ps_out[5])

\* the request body of an OpenRouter call under way or over
ORBodySent == pcall.pc # "idle" /\ pcall.provider = "openrouter"

\* C32: clamping is range-preserving and idempotent: the clamped fields of the
\* configuration (judge_repeats 1..5, max_tokens 64..4096, temperature 0..2,
\* http_timeout 30..600) and of the request body (temperature 0..1, top_p
\* 0.1..1, max_tokens 1..2048) lie in their intervals, and clamping the
\* clamped values again changes nothing.
C32_ClampingIdempotent ==
    /\ app.pc = "loaded" =>
        /\ app.config.judge_repeats \in 1..5
        /\ app.config.max_tokens \in 64..4096
        /\ app.config.temperature \in 0..200
        /\ app.config.http_timeout \in 30..600
        /\ ValidateConfig(app.config) = app.config
    /\ ORBodySent =>
        /\ pcall.body.temperature \in 0..100
        /\ pcall.body.top_p \in 10..100
        /\ pcall.body.max_tokens \in 1..2048
        /\ ORCreateRequestBody(pcall.body.model, pcall.body.messages[1].content,
                               pcall.body) = pcall.body

\* a configuration was built from values outside every interval, two below and
\* two above
C32_Witness ==
    /\ app.pc = "loaded"
    /\ app.raw = [judge_repeats |-> 6, max_tokens |-> 0, temperature |-> 201,
                  http_timeout |-> 29]
    /\ app.config = [judge_repeats |-> 5, max_tokens |-> 64, temperature |-> 200,
                     http_timeout |-> 30]

\* the attempts in which judge_once could not extract a decision
Unparsed ==
    { i \in Answered :
        /\ jm[1].once_did[i].kind = "return"
        /\ ~jm[1].once_did[i].value.ok
        /\ jm[1].once_did[i].value.reason[1] = "Could not parse decision from response: '" }

\* the reason between its opening message and its closing quote
PreviewOf(reason) == SubSeq(reason, 2, Len(reason) - 1)

\* the preview without its ellipsis marker
PreviewBody(preview) ==
    IF preview # << >> /\ preview[Len(preview)] = "..."
    THEN SubSeq(preview, 1, Len(preview) - 1) ELSE preview

\* C33: when judge_once cannot extract a decision, the reason embeds a preview
\* of at most 200 characters of the response, its beginning, with an ellipsis
\* marker when the response is longer, and never the full text of a longer
\* response.
C33_PreviewIsBounded ==
    \A i \in Unparsed :
        LET reason == jm[1].once_did[i].value.reason
            text == ExtractResponseText(jm[1].client_did[i].value).value
            body == PreviewBody(PreviewOf(reason))
        IN  /\ Len(body) <= PreviewChars
            /\ Len(body) <= Len(text)
            /\ body = SubSeq(text, 1, Len(body))
            /\ Len(text) <= PreviewChars => PreviewOf(reason) = text
            /\ Len(text) > PreviewChars =>
                  /\ PreviewOf(reason) = Append(body, "...")
                  /\ ~Contains(reason, text)

\* a response of 201 characters without a decision: the reason holds its first
\* 200 characters and the marker
C33_Witness ==
    \E i \in Unparsed :
        /\ jm[1].client_did[i].value.text = LongText
        /\ Len(PreviewOf(jm[1].once_did[i].value.reason)) = PreviewChars + 1

\* the delays of the sleeps of the call, in order
CallSleeps ==
    LET sleeps == SelectSeq(pcall.trace, LAMBDA e : e.op = "sleep")
    IN  [i \in 1..Len(sleeps) |-> sleeps[i].delay]

\* the generators of the streams of clients that have a retry loop of their own
RetryingStreams ==
    { g \in {ps_gen, or_gen, tg_gen} : "slept" \in DOMAIN g }

\* no delay is shorter than the one before it, and none is more than three
\* times as long (a doubled delay after a backoff grown by 3/2)
NeverShorter(delays) ==
    \A i \in 1..(Len(delays) - 1) :
        delays[i] <= delays[i + 1] /\ delays[i + 1] <= 3 * delays[i]

\* a sleep of the call is followed by a request, at once or in the attempt the
\* loop still has to make
SleepsBetweenAttempts ==
    \A i \in 1..Len(pcall.trace) :
        pcall.trace[i].op = "sleep" =>
            /\ i > 1 /\ pcall.trace[i - 1].op = "request"
            /\ \/ i < Len(pcall.trace) /\ pcall.trace[i + 1].op = "request"
               \/ i = Len(pcall.trace) /\ pcall.pc = "loop"
                    /\ pcall.attempt <= pcall.retries

\* a step changes a backoff only by multiplying it by 2 or by 3/2, and only
\* together with a sleep
BackoffMultiplied ==
    /\ (pcall.pc = "loop" /\ pcall'.backoff # pcall.backoff) =>
          /\ pcall'.backoff \in {2 * pcall.backoff, (3 * pcall.backoff) \div 2}
          /\ Len(pcall'.trace) = Len(pcall.trace) + 2
          /\ pcall'.trace[Len(pcall'.trace)].op = "sleep"
    /\ (ps_pc = "running" /\ "slept" \in DOMAIN ps_gen
          /\ ps_gen'.backoff # ps_gen.backoff) =>
          /\ ps_gen'.backoff \in {2 * ps_gen.backoff, (3 * ps_gen.backoff) \div 2}
          /\ Len(ps_gen'.slept) = Len(ps_gen.slept) + 1

Closing(chunk) == IsFinal(chunk) \/ ~chunk["ok"]

\* C38: every finite output of stream_with_fallback is closed by exactly one
\* chunk that is terminal or a failure: it is the last element, and no chunk
\* before it is terminal or a failure, whichever stream served the output.
C38_OutputClosedByOneChunk ==
    /\ \A i \in 1..(Len(out) - 1) : ~Closing(out[i])
    /\ sw_pc = "done" => (out # << >> /\ Closing(out[Len(out)]))
    /\ (out # << >> /\ Closing(out[Len(out)]) /\ sw_pc # "idle") =>
          sw_pc = "done" \/ tg_gen.phase = "stop"

\* the secondary served the output after a retry of its own that followed a
\* text fragment, and closed it with its terminal chunk
C38_Witness ==
    /\ sw_pc = "done"
    /\ Len(out) >= 4
    /\ IsFinal(out[Len(out)])
    /\ Get(out[Len(out)], "fallback_used", FALSE)
    /\ tg_gen.attempt >= 2

\* C39: a provider client stream retries only before it has yielded a text
\* chunk: whenever it is about to send a request again, no text fragment has
\* been emitted, so that the consumer never receives the beginning of the
\* response twice.
C39_NoRetryAfterText ==
    (/\ ps_pc = "running"
     /\ ps_provider \in {"openrouter", "together"}
     /\ ps_gen.phase \in {"post", "create"}
     /\ ps_gen.attempt > 1) =>
        TextChunks(ps_out) = << >>

\* the client answered the request of attempt i with a completion whose text
\* ends in a valid token
ValidAnswer(did) ==
    /\ did.kind = "return"
    /\ Get(did.value, "ok", FALSE)
    /\ Get(did.value, "text", None) # None
    /\ LastNonBlankLine(UpperStr(did.value.text)) \in Labels

\* C40: in the application's wiring (the JudgeService constructed by
\* UI.__init__, judge_majority called as render_main calls it), when every
\* request to the judge model succeeds with a text ending in A, B or TIE,
\* judge_majority returns ok=true with a decision, and the judge's requests
\* are issued to a provider.
C40_ApplicationJudgeDecides ==
    (/\ Done(1)
     /\ jm[1].setup \in UISetups
     /\ \A i \in 1..Len(jm[1].client_did) :
           jm[1].client_did[i] = NotCalled \/ ValidAnswer(jm[1].client_did[i])) =>
        /\ jm[1].result["ok"]
        /\ jm[1].result["decision"] \in Labels
        /\ Len(InvocationsOf("openrouter")) = jm[1].repeats

\* C35: the polling loop of run_comparison_safe terminates in every execution
\* in which both candidate streams end: the last update of each worker makes
\* the driver mark its candidate completed, whatever chunks and message texts
\* stream_with_fallback produced.
C35_DriverTerminates == (ui.pc = "running") ~> (ui.pc = "done")

\* the final update a worker has put: partial is false and there is a text
FinalUpdates(key) ==
    SelectSeq(ui.produced[key], LAMBDA u : ~u.partial /\ u.text # None)

\* C36: the text of a worker's final update, which becomes the candidate's
\* result, is the concatenation in order of the texts of the non-terminal ok
\* chunks of its stream, each fragment once: the terminal chunk adds no text.
C36_FinalTextIsConcatenation ==
    \A key \in Keys :
        \A i \in 1..Len(FinalUpdates(key)) :
            FinalUpdates(key)[i].text = ConcatTexts(TextChunks(ui.stream[key]))

\* the notice of the switch to the fallback: client_manager.py:109
IsNotice(chunk) ==
    /\ chunk["ok"]
    /\ "text" \in DOMAIN chunk
    /\ chunk["text"] # << >>
    /\ chunk["text"][1] = "\n\n[Primary model failed: "

\* the chunks of a stream that come after the notice
AfterNotice(stream) ==
    LET n == CHOOSE i \in 1..Len(stream) : IsNotice(stream[i])
    IN  SubSeq(stream, n + 1, Len(stream))

\* C37: the candidate texts handed to judge_majority hold only text a model
\* generated for the prompt: for a candidate served by the fallback, the text
\* of the fallback's fragments, without the coordinator's notice and without
\* the fragments of the abandoned primary attempt.
C37_CandidateTextIsModelText ==
    (ui.pc = "done" /\ \A key \in Keys : ui.results[key] # None) =>
        \A key \in Keys :
            (\E i \in 1..Len(ui.stream[key]) : IsNotice(ui.stream[key][i])) =>
                ui.results[key] = ConcatTexts(TextChunks(AfterNotice(ui.stream[key])))

====
